---- MODULE Spec2Model ----
(***************************************************************************)
(* Verification model of e2neutrino: DVB code tables, scan-entry           *)
(* deduplication, M3U playlist ingestion, service deduplication, the       *)
(* convert() pipeline, category bouquets without and with catalogs, the    *)
(* lamedb round trip, the scanfile writer, write_outputs, the DVB-SI dump  *)
(* adapter, the HTTP fetch of ingest and the per-source lock of ingest.    *)
(* Each subsystem has its own specification; the variables of the other    *)
(* subsystems stay at their idle value.                                    *)
(***************************************************************************)
EXTENDS Integers, Sequences, FiniteSets, TLC

VARIABLES
    cFn, cDelivery, cIn, cOut, cBack, cPhase,   \* code tables: function, input, code, decoded
    sEntries, sOut, sPhase,                     \* scan entries: input list, dedup result
    dServices, dBouquets, dNow, dOut, dPhase,   \* service dedup: profile, clock, result
    mLines, mDomains, mOut, mPhase,             \* m3u ingestion: playlist, allow-list, result
    fIn, fOpts, fOut, fPhase,                   \* staleness gate: metadata, options, result
    vIn, vOpts, vPc, vProfile, vReport, vOut, vError,  \* convert: input, options, position, profile, report, output, exception
    kServices, kBouquets, kOut, kPhase,  \* category bouquets: services, legacy bouquets, result
    lIn, lProfile, lLines, lOut, lPhase,  \* lamedb round trip: original file, profile, written lines, reloaded profile
    wEntries, wOpts, wBundle, wOut, wValid, wPhase,  \* scanfiles: entries, options, bundle, write result, validation, position
    oIn, oOpts, oOut, oPhase,  \* write_outputs on a profile
    xDump, xOut, xPhase,  \* DvbSiAdapter.ingest on a dump
    gServices, gBouquets, gCatalog, gOut, gPhase,  \* category bouquets with catalogs
    hAllow, hUrl, hAttempt, hHop, hCurrent, hTarget, hRequests, hLast, hLastExc, hPc, hResult,  \* HTTP fetch with redirects and retries
    iSources, iOnly, iIndex, iPc, iLocks, iProfiles, iWritten, iResults, iProcessed, iError  \* ingest: per-source lock

codeVars == <<cFn, cDelivery, cIn, cOut, cBack, cPhase>>
scanVars == <<sEntries, sOut, sPhase>>
dedupVars == <<dServices, dBouquets, dNow, dOut, dPhase>>

m3uVars == <<mLines, mDomains, mOut, mPhase>>

freshVars == <<fIn, fOpts, fOut, fPhase>>

convVars == <<vIn, vOpts, vPc, vProfile, vReport, vOut, vError>>

classVars == <<kServices, kBouquets, kOut, kPhase>>

lamedbVars == <<lIn, lProfile, lLines, lOut, lPhase>>

scanfileVars == <<wEntries, wOpts, wBundle, wOut, wValid, wPhase>>

outputVars == <<oIn, oOpts, oOut, oPhase>>

dvbsiVars == <<xDump, xOut, xPhase>>

catalogVars == <<gServices, gBouquets, gCatalog, gOut, gPhase>>

httpVars == <<hAllow, hUrl, hAttempt, hHop, hCurrent, hTarget, hRequests, hLast, hLastExc, hPc, hResult>>

ingestVars == <<iSources, iOnly, iIndex, iPc, iLocks, iProfiles, iWritten, iResults, iProcessed, iError>>

vars == <<codeVars, scanVars, dedupVars, m3uVars, freshVars, convVars, classVars, lamedbVars, scanfileVars, outputVars, dvbsiVars, catalogVars, httpVars, ingestVars>>

\* What a subsystem's operations leave alone: the other subsystems' state.
otherThanCodes == <<scanVars, dedupVars, m3uVars, freshVars, convVars, classVars, lamedbVars, scanfileVars, outputVars, dvbsiVars, catalogVars, httpVars, ingestVars>>
otherThanScan == <<codeVars, dedupVars, m3uVars, freshVars, convVars, classVars, lamedbVars, scanfileVars, outputVars, dvbsiVars, catalogVars, httpVars, ingestVars>>
otherThanDedup == <<codeVars, scanVars, m3uVars, freshVars, convVars, classVars, lamedbVars, scanfileVars, outputVars, dvbsiVars, catalogVars, httpVars, ingestVars>>
otherThanM3U == <<codeVars, scanVars, dedupVars, freshVars, convVars, classVars, lamedbVars, scanfileVars, outputVars, dvbsiVars, catalogVars, httpVars, ingestVars>>
otherThanConvert == <<codeVars, scanVars, dedupVars, m3uVars, freshVars, classVars, lamedbVars, scanfileVars, outputVars, dvbsiVars, catalogVars, httpVars, ingestVars>>
otherThanFresh == <<codeVars, scanVars, dedupVars, m3uVars, convVars, classVars, lamedbVars, scanfileVars, outputVars, dvbsiVars, catalogVars, httpVars, ingestVars>>
otherThanClassify == <<codeVars, scanVars, dedupVars, m3uVars, freshVars, convVars, lamedbVars, scanfileVars, outputVars, dvbsiVars, catalogVars, httpVars, ingestVars>>
otherThanLamedb == <<codeVars, scanVars, dedupVars, m3uVars, freshVars, convVars, classVars, scanfileVars, outputVars, dvbsiVars, catalogVars, httpVars, ingestVars>>
otherThanScanfiles == <<codeVars, scanVars, dedupVars, m3uVars, freshVars, convVars, classVars, lamedbVars, outputVars, dvbsiVars, catalogVars, httpVars, ingestVars>>
otherThanOutputs == <<codeVars, scanVars, dedupVars, m3uVars, freshVars, convVars, classVars, lamedbVars, scanfileVars, dvbsiVars, catalogVars, httpVars, ingestVars>>
otherThanDvbsi == <<codeVars, scanVars, dedupVars, m3uVars, freshVars, convVars, classVars, lamedbVars, scanfileVars, outputVars, catalogVars, httpVars, ingestVars>>
otherThanCatalog == <<codeVars, scanVars, dedupVars, m3uVars, freshVars, convVars, classVars, lamedbVars, scanfileVars, outputVars, dvbsiVars, httpVars, ingestVars>>
otherThanHttp == <<codeVars, scanVars, dedupVars, m3uVars, freshVars, convVars, classVars, lamedbVars, scanfileVars, outputVars, dvbsiVars, catalogVars, ingestVars>>
otherThanIngest == <<codeVars, scanVars, dedupVars, m3uVars, freshVars, convVars, classVars, lamedbVars, scanfileVars, outputVars, dvbsiVars, catalogVars, httpVars>>

(***************************************************************************)
(* Python values.  A text is a sequence of one-character strings; values   *)
(* carry a type tag so that values of different Python types compare       *)
(* unequal (8000000 == "8MHz" is False in Python).                         *)
(***************************************************************************)
PyNone == [t |-> "none", v |-> <<>>]
PyStr(s) == [t |-> "str", v |-> s]
PyInt(n) == [t |-> "int", v |-> n]
PyEq(a, b) == a.t = b.t /\ a.v = b.v

\* Python truthiness of an Optional[str] / Optional[int] argument.
Falsy(x) == x.t = "none" \/ (x.t = "str" /\ x.v = <<>>) \/ (x.t = "int" /\ x.v = 0)

LowerLetters == <<"a","b","c","d","e","f","g","h","i","j","k","l","m",
                  "n","o","p","q","r","s","t","u","v","w","x","y","z">>
UpperLetters == <<"A","B","C","D","E","F","G","H","I","J","K","L","M",
                  "N","O","P","Q","R","S","T","U","V","W","X","Y","Z">>

ToUpper == [c \in {LowerLetters[i] : i \in 1..26} |->
                UpperLetters[CHOOSE i \in 1..26 : LowerLetters[i] = c]]
ToLower == [c \in {UpperLetters[i] : i \in 1..26} |->
                LowerLetters[CHOOSE i \in 1..26 : UpperLetters[i] = c]]

UpperChar(c) == IF c \in DOMAIN ToUpper THEN ToUpper[c] ELSE c
LowerChar(c) == IF c \in DOMAIN ToLower THEN ToLower[c] ELSE c

\* str.upper() / str.lower()
StrUpper(s) == [i \in 1..Len(s) |-> UpperChar(s[i])]
StrLower(s) == [i \in 1..Len(s) |-> LowerChar(s[i])]

\* str.strip(): drop leading and trailing blanks.
RECURSIVE LStrip(_)
LStrip(s) == IF s # <<>> /\ Head(s) \in {" ", "\t"} THEN LStrip(Tail(s)) ELSE s
RECURSIVE RStrip(_)
RStrip(s) == IF s # <<>> /\ s[Len(s)] \in {" ", "\t"} THEN RStrip(SubSeq(s, 1, Len(s) - 1)) ELSE s
StrStrip(s) == RStrip(LStrip(s))

\* sorted(values, key=...): an item goes behind the items of smaller key and
\* behind the earlier items of equal key (sorted() is stable)
SortedBy(list, Less(_, _)) ==
    LET before(i) == Cardinality({j \in 1..Len(list) :
                        Less(list[j], list[i]) \/ (~Less(list[i], list[j]) /\ j < i)})
    IN [k \in 1..Len(list) |-> list[CHOOSE i \in 1..Len(list) : before(i) = k - 1]]

(***************************************************************************)
(* dvb_codes.py: the code tables, in declaration order (key, code).        *)
(***************************************************************************)
POLARIZATION_CODES ==
    << <<PyStr(<<"H">>), 0>>, <<PyStr(<<"V">>), 1>>, <<PyStr(<<"L">>), 2>>, <<PyStr(<<"R">>), 3>> >>

FEC_CODES ==
    << <<PyStr(<<"N","O","N","E">>), 0>>, <<PyStr(<<"A","U","T","O">>), 0>>, <<PyStr(<<"0">>), 0>>,
       <<PyStr(<<"1","/","2">>), 1>>, <<PyStr(<<"2","/","3">>), 2>>, <<PyStr(<<"3","/","4">>), 3>>,
       <<PyStr(<<"4","/","5">>), 4>>, <<PyStr(<<"5","/","6">>), 5>>, <<PyStr(<<"6","/","7">>), 6>>,
       <<PyStr(<<"7","/","8">>), 7>>, <<PyStr(<<"8","/","9">>), 8>>, <<PyStr(<<"9">>), 9>> >>

MODULATION_SAT_CODES ==
    << <<PyStr(<<"A","U","T","O">>), 0>>, <<PyStr(<<"Q","P","S","K">>), 1>>,
       <<PyStr(<<"8","P","S","K">>), 2>>, <<PyStr(<<"Q","A","M","1","6">>), 3>> >>

CONSTELLATION_CODES ==
    << <<PyStr(<<"Q","P","S","K">>), 0>>, <<PyStr(<<"Q","A","M","1","6">>), 1>>,
       <<PyStr(<<"Q","A","M","3","2">>), 2>>, <<PyStr(<<"Q","A","M","6","4">>), 3>>,
       <<PyStr(<<"Q","A","M","1","2","8">>), 4>>, <<PyStr(<<"Q","A","M","2","5","6">>), 5>>,
       <<PyStr(<<"A","U","T","O">>), 6>> >>

BANDWIDTH_CODES ==
    << <<PyInt(8000000), 0>>, <<PyInt(7000000), 1>>, <<PyInt(6000000), 2>>, <<PyInt(0), 3>> >>

\* mapping of code_to_bandwidth (a literal dict in the source)
BANDWIDTH_LABELS ==
    << <<0, PyStr(<<"8","M","H","z">>)>>, <<1, PyStr(<<"7","M","H","z">>)>>,
       <<2, PyStr(<<"6","M","H","z">>)>>, <<3, PyStr(<<"A","U","T","O">>)>> >>

\* dict.get(key): the code stored under key, or -1 for None (no code is negative).
NoCode == -1
TableHas(table, key) == \E i \in 1..Len(table) : PyEq(table[i][1], key)
TableGet(table, key) ==
    IF TableHas(table, key)
    THEN table[CHOOSE i \in 1..Len(table) : PyEq(table[i][1], key)][2]
    ELSE NoCode

TableKeys(table) == {table[i][1] : i \in 1..Len(table)}

\* {v: k for k, v in table.items() if k not in excluded}.get(code, default):
\* a later key overwrites an earlier key with the same code.
ReverseGet(table, excluded, code, default) ==
    LET idx == {i \in 1..Len(table) : table[i][2] = code /\ table[i][1] \notin excluded}
    IN IF idx = {} THEN default
       ELSE table[CHOOSE i \in idx : \A j \in idx : j <= i][1]

polarization_to_code(polarization) ==
    IF Falsy(polarization) THEN 0
    ELSE LET code == TableGet(POLARIZATION_CODES, PyStr(StrStrip(StrUpper(polarization.v))))
         IN IF code = NoCode THEN 0 ELSE code

fec_to_code(fec) ==
    IF Falsy(fec) THEN 0
    ELSE LET code == TableGet(FEC_CODES, PyStr(StrStrip(StrUpper(fec.v))))
         IN IF code = NoCode THEN 0 ELSE code

modulation_to_code(modulation, delivery) ==
    IF Falsy(modulation) THEN (IF delivery = "sat" THEN 1 ELSE 6)
    ELSE LET mod_str == PyStr(StrStrip(StrUpper(modulation.v)))
         IN IF delivery = "sat"
            THEN LET code == TableGet(MODULATION_SAT_CODES, mod_str)
                 IN IF code = NoCode THEN 1 ELSE code
            ELSE LET code == TableGet(CONSTELLATION_CODES, mod_str)
                 IN IF code = NoCode THEN 6 ELSE code

bandwidth_to_code_threshold_slip(bandwidth_hz) ==
    IF Falsy(bandwidth_hz) THEN 3
    ELSE LET code == TableGet(BANDWIDTH_CODES, bandwidth_hz)
         IN IF code = NoCode
            THEN IF bandwidth_hz.v >= 7000000 THEN 0
                 ELSE IF bandwidth_hz.v >= 6000000 THEN 1
                 ELSE IF bandwidth_hz.v >= 5000000 THEN 2
                 ELSE 3
            ELSE code

bandwidth_to_code(bandwidth_hz) ==
    IF Falsy(bandwidth_hz) THEN 3
    ELSE LET code == TableGet(BANDWIDTH_CODES, bandwidth_hz)
         IN IF code = NoCode
            THEN IF bandwidth_hz.v >= 7500000 THEN 0
                 ELSE IF bandwidth_hz.v >= 6500000 THEN 1
                 ELSE IF bandwidth_hz.v >= 5000000 THEN 2
                 ELSE 3
            ELSE code

code_to_polarization(code) == ReverseGet(POLARIZATION_CODES, {}, code, PyStr(<<"H">>))

code_to_fec_unfiltered(code) == ReverseGet(FEC_CODES, {}, code, PyStr(<<"A","U","T","O">>))

code_to_fec(code) ==
    ReverseGet(FEC_CODES, {PyStr(<<"0">>), PyStr(<<"9">>), PyStr(<<"N","O","N","E">>)},
               code, PyStr(<<"A","U","T","O">>))

code_to_modulation_sat(code) ==
    ReverseGet(MODULATION_SAT_CODES, {}, code, PyStr(<<"Q","P","S","K">>))

code_to_constellation(code) ==
    ReverseGet(CONSTELLATION_CODES, {}, code, PyStr(<<"A","U","T","O">>))

code_to_bandwidth(code) ==
    IF \E i \in 1..Len(BANDWIDTH_LABELS) : BANDWIDTH_LABELS[i][1] = code
    THEN BANDWIDTH_LABELS[CHOOSE i \in 1..Len(BANDWIDTH_LABELS) : BANDWIDTH_LABELS[i][1] = code][2]
    ELSE PyStr(<<"A","U","T","O">>)

(***************************************************************************)
(* scan/normalizer.py: deduplication of TransponderScanEntry records.      *)
(***************************************************************************)
\* (x or "") for an Optional[str]
OrEmpty(x) == IF Falsy(x) THEN <<>> ELSE x.v
\* (x or 0) for an Optional[int]
OrZero(x) == IF Falsy(x) THEN 0 ELSE x.v

StartsWith(s, prefix) ==
    Len(s) >= Len(prefix) /\ SubSeq(s, 1, Len(prefix)) = prefix

IsCableDelivery(delivery) ==
    StartsWith(delivery, <<"D","V","B","-","C">>) \/ delivery = <<"C","A","B","L","E">>

IsTerrestrialDelivery(delivery) ==
    StartsWith(delivery, <<"D","V","B","-","T">>)
    \/ delivery = <<"T","E","R","R","E","S","T","R","I","A","L">>

\* The mutant keeps the provider/region scope in its original case.
scan_identity_case_sensitive(entry) ==
    LET delivery == StrUpper(OrEmpty(entry.delivery_system))
        scope == IF IsCableDelivery(delivery) THEN OrEmpty(entry.provider)
                 ELSE IF IsTerrestrialDelivery(delivery) THEN OrEmpty(entry.region)
                 ELSE IF ~Falsy(entry.provider) THEN entry.provider.v
                 ELSE OrEmpty(entry.region)
        symbol_or_bandwidth ==
            IF ~Falsy(entry.symbol_rate) THEN entry.symbol_rate.v ELSE OrZero(entry.bandwidth_hz)
    IN <<delivery, scope, entry.frequency_hz, symbol_or_bandwidth,
         StrLower(OrEmpty(entry.modulation)), StrLower(OrEmpty(entry.fec)),
         StrLower(OrEmpty(entry.polarization))>>

\* _scan_identity: the "|"-joined text is kept as the tuple of its parts
\* (no part of a modelled entry contains "|", so the join is injective).
scan_identity(entry) ==
    LET delivery == StrUpper(OrEmpty(entry.delivery_system))
        scope == IF IsCableDelivery(delivery) THEN StrLower(OrEmpty(entry.provider))
                 ELSE IF IsTerrestrialDelivery(delivery) THEN StrLower(OrEmpty(entry.region))
                 ELSE IF ~Falsy(entry.provider) THEN StrLower(entry.provider.v)
                 ELSE StrLower(OrEmpty(entry.region))
        symbol_or_bandwidth ==
            IF ~Falsy(entry.symbol_rate) THEN entry.symbol_rate.v ELSE OrZero(entry.bandwidth_hz)
    IN <<delivery, scope, entry.frequency_hz, symbol_or_bandwidth,
         StrLower(OrEmpty(entry.modulation)), StrLower(OrEmpty(entry.fec)),
         StrLower(OrEmpty(entry.polarization))>>

\* _parse_last_seen: last_seen is [form, t]; form "offset" is a timestamp
\* with UTC offset (aware), "plain" a timestamp without offset and "date" a
\* bare date (both naive), "junk" unparseable text, "none" absent.
parse_last_seen(value) ==
    IF value.form \in {"none", "junk"} THEN [ok |-> FALSE, aware |-> FALSE, t |-> 0]
    ELSE [ok |-> TRUE, aware |-> (value.form = "offset"), t |-> value.t]

\* _prefer_entry: "keep" is "first", "second", or "TypeError" when an aware
\* and a naive datetime are compared.
prefer_entry(first, second) ==
    LET first_seen == parse_last_seen(first.last_seen)
        second_seen == parse_last_seen(second.last_seen)
        by_extras ==
            IF second.extras > first.extras THEN [keep |-> "second", reason |-> "more-metadata"]
            ELSE IF first.extras > second.extras THEN [keep |-> "first", reason |-> "more-metadata"]
            ELSE [keep |-> "first", reason |-> "stable-order"]
    IN IF first_seen.ok /\ second_seen.ok
       THEN IF first_seen.aware # second_seen.aware
            THEN [keep |-> "TypeError", reason |-> "TypeError"]
            ELSE IF second_seen.t > first_seen.t
                 THEN [keep |-> "second", reason |-> "newer-last-seen"]
                 ELSE IF first_seen.t > second_seen.t
                      THEN [keep |-> "first", reason |-> "older-last-seen"]
                      ELSE by_extras
       ELSE IF second_seen.ok /\ ~first_seen.ok
            THEN [keep |-> "second", reason |-> "newer-last-seen"]
            ELSE IF first_seen.ok /\ ~second_seen.ok
                 THEN [keep |-> "first", reason |-> "older-last-seen"]
                 ELSE by_extras

\* Position of identity in the insertion-ordered dict "seen" (0 if absent).
SeenIndex(seen, identity) ==
    IF \E i \in 1..Len(seen) : seen[i].identity = identity
    THEN CHOOSE i \in 1..Len(seen) : seen[i].identity = identity
    ELSE 0

\* One iteration of the loop of deduplicate_scan_entries.
ScanDedupStep(acc, entry) ==
    LET identity == scan_identity(entry)
        at == SeenIndex(acc.seen, identity)
    IN IF acc.raised THEN acc
       ELSE IF at = 0
       THEN [acc EXCEPT !.seen = Append(@, [identity |-> identity, entry |-> entry])]
       ELSE LET existing == acc.seen[at].entry
                choice == prefer_entry(existing, entry)
            IN IF choice.keep = "TypeError" THEN [acc EXCEPT !.raised = TRUE]
               ELSE [acc EXCEPT
                        !.seen = IF choice.keep = "second"
                                 THEN [@ EXCEPT ![at] = [identity |-> identity, entry |-> entry]]
                                 ELSE @,
                        !.decisions = Append(@,
                            [identity |-> identity,
                             kept |-> IF choice.keep = "second" THEN entry ELSE existing,
                             dropped |-> IF choice.keep = "second" THEN existing ELSE entry,
                             reason |-> choice.reason])]

RECURSIVE ScanDedupLoop(_, _)
ScanDedupLoop(acc, entries) ==
    IF entries = <<>> THEN acc
    ELSE ScanDedupLoop(ScanDedupStep(acc, Head(entries)), Tail(entries))

\* deduplicate_scan_entries: (list(seen.values()), decisions), or raised.
deduplicate_scan_entries(entries) ==
    LET acc == ScanDedupLoop([seen |-> <<>>, decisions |-> <<>>, raised |-> FALSE], entries)
    IN [raised |-> acc.raised,
        entries |-> IF acc.raised THEN <<>> ELSE [i \in 1..Len(acc.seen) |-> acc.seen[i].entry],
        decisions |-> IF acc.raised THEN <<>> ELSE acc.decisions]

MaxScanEntries == 3

Voda == <<"V","o","d","a">>
QAM256 == <<"Q","A","M","2","5","6">>

\* Technical parameters of the modelled entries.  The first two share one
\* identity (case of delivery/provider/modulation, symbol rate against
\* bandwidth), like the last two (provider against region scope).
ScanBases ==
    << [delivery_system |-> PyStr(<<"D","V","B","-","C">>), provider |-> PyStr(Voda),
        region |-> PyNone, symbol_rate |-> PyInt(6900), bandwidth_hz |-> PyNone,
        modulation |-> PyStr(QAM256)],
       [delivery_system |-> PyStr(<<"d","v","b","-","c">>), provider |-> PyStr(StrLower(Voda)),
        region |-> PyNone, symbol_rate |-> PyNone, bandwidth_hz |-> PyInt(6900),
        modulation |-> PyStr(StrLower(QAM256))],
       [delivery_system |-> PyStr(<<"D","V","B","-","T","2">>), provider |-> PyNone,
        region |-> PyStr(<<"B","e","r","l","i","n">>), symbol_rate |-> PyNone,
        bandwidth_hz |-> PyInt(8000), modulation |-> PyStr(QAM256)],
       [delivery_system |-> PyStr(<<"D","V","B","-","S","2">>), provider |-> PyStr(<<"A","s","t","r","a">>),
        region |-> PyNone, symbol_rate |-> PyInt(27500), bandwidth_hz |-> PyNone,
        modulation |-> PyNone],
       [delivery_system |-> PyStr(<<"D","V","B","-","S","2">>), provider |-> PyNone,
        region |-> PyStr(<<"a","s","t","r","a">>), symbol_rate |-> PyInt(27500),
        bandwidth_hz |-> PyNone, modulation |-> PyNone] >>

ScanFreshness ==
    << [last_seen |-> [form |-> "none", t |-> 0], extras |-> 0],
       [last_seen |-> [form |-> "none", t |-> 0], extras |-> 1],
       [last_seen |-> [form |-> "offset", t |-> 1], extras |-> 0],
       [last_seen |-> [form |-> "offset", t |-> 2], extras |-> 0],
       [last_seen |-> [form |-> "plain", t |-> 1], extras |-> 0] >>

ScanEntryIds == 1..(Len(ScanBases) * Len(ScanFreshness))

\* The entry with the given id; pos is its position in the input list (the
\* identity of the Python object).
ScanEntry(id, pos) ==
    LET b == ScanBases[((id - 1) \div Len(ScanFreshness)) + 1]
        f == ScanFreshness[((id - 1) % Len(ScanFreshness)) + 1]
    IN [pos |-> pos,
        delivery_system |-> b.delivery_system, provider |-> b.provider, region |-> b.region,
        frequency_hz |-> 450, symbol_rate |-> b.symbol_rate, bandwidth_hz |-> b.bandwidth_hz,
        modulation |-> b.modulation, fec |-> PyStr(<<"3","/","4">>), polarization |-> PyNone,
        last_seen |-> f.last_seen, extras |-> f.extras]

SeqsUpTo(S, n) == UNION {[1..k -> S] : k \in 0..n}

\* The input list of entries (sEntries holds the ids).
ScanInput == [i \in 1..Len(sEntries) |-> ScanEntry(sEntries[i], i)]

ScanNoResult == [raised |-> FALSE, entries |-> <<>>, decisions |-> <<>>]

ScanInit ==
    /\ sEntries \in SeqsUpTo(ScanEntryIds, MaxScanEntries)
    /\ sOut = ScanNoResult
    /\ sPhase = "input"

ScanIdle ==
    /\ sEntries = <<>>
    /\ sOut = ScanNoResult
    /\ sPhase = "idle"

\* The result with every entry replaced by its position in the input.
ScanPositions(result) ==
    [raised |-> result.raised,
     entries |-> [i \in 1..Len(result.entries) |-> result.entries[i].pos],
     decisions |-> [i \in 1..Len(result.decisions) |->
                      [kept |-> result.decisions[i].kept.pos,
                       dropped |-> result.decisions[i].dropped.pos,
                       reason |-> result.decisions[i].reason]]]

DeduplicateScanEntries ==
    /\ sPhase = "input"
    /\ sOut' = ScanPositions(deduplicate_scan_entries(ScanInput))
    /\ sPhase' = "deduplicated"
    /\ UNCHANGED sEntries
    /\ UNCHANGED otherThanScan

ScanNext == DeduplicateScanEntries

\* The identity of the claim: delivery system, provider scope for cable,
\* region scope for terrestrial and provider-or-region otherwise, frequency,
\* symbol rate or bandwidth, modulation, fec and polarization, every text
\* folded to one case.
ClaimScanIdentity(e) ==
    LET delivery == StrLower(OrEmpty(e.delivery_system))
        cable == StartsWith(delivery, <<"d","v","b","-","c">>) \/ delivery = <<"c","a","b","l","e">>
        terrestrial == StartsWith(delivery, <<"d","v","b","-","t">>)
                       \/ delivery = <<"t","e","r","r","e","s","t","r","i","a","l">>
        scope == IF cable THEN e.provider
                 ELSE IF terrestrial THEN e.region
                 ELSE IF ~Falsy(e.provider) THEN e.provider ELSE e.region
    IN <<delivery, StrLower(OrEmpty(scope)), e.frequency_hz,
         IF ~Falsy(e.symbol_rate) THEN e.symbol_rate.v ELSE OrZero(e.bandwidth_hz),
         StrLower(OrEmpty(e.modulation)), StrLower(OrEmpty(e.fec)),
         StrLower(OrEmpty(e.polarization))>>

SeqRange(q) == {q[i] : i \in 1..Len(q)}

ClaimParseable(e) == e.last_seen.form \notin {"none", "junk"}

\* The rule of the claim for one collision: the position of the entry kept
\* among the entry kept so far and the next entry of the same identity.
ClaimPreferred(first, second) ==
    IF ClaimParseable(first) /\ ClaimParseable(second) /\ second.last_seen.t > first.last_seen.t
    THEN second
    ELSE IF ClaimParseable(first) /\ ClaimParseable(second) /\ first.last_seen.t > second.last_seen.t
    THEN first
    ELSE IF ClaimParseable(second) /\ ~ClaimParseable(first) THEN second
    ELSE IF ClaimParseable(first) /\ ~ClaimParseable(second) THEN first
    ELSE IF second.extras > first.extras THEN second
    ELSE first

\* The survivor of the entries of one identity, decided pairwise in input
\* order (kept is the survivor so far, k the next position of the input)
RECURSIVE ClaimSurvivorFrom(_, _, _)
ClaimSurvivorFrom(kept, k, identity) ==
    IF k > Len(sEntries) THEN kept
    ELSE IF ClaimScanIdentity(ScanInput[k]) # identity THEN ClaimSurvivorFrom(kept, k + 1, identity)
    ELSE ClaimSurvivorFrom(ClaimPreferred(kept, ScanInput[k]), k + 1, identity)

\* The first entry of the identity of the entry at position p
ClaimFirstOf(p) ==
    ScanInput[CHOOSE k \in 1..p :
                 /\ ClaimScanIdentity(ScanInput[k]) = ClaimScanIdentity(ScanInput[p])
                 /\ \A j \in 1..(k - 1) :
                       ClaimScanIdentity(ScanInput[j]) # ClaimScanIdentity(ScanInput[p])]

\* The positions of the survivors the rule of the claim leaves
ClaimScanSurvivors ==
    {ClaimSurvivorFrom(ClaimFirstOf(p), ClaimFirstOf(p).pos + 1,
                       ClaimScanIdentity(ScanInput[p])).pos : p \in 1..Len(sEntries)}

\* C22: among the entries of one scan identity the survivor is decided
\* pairwise in input order: a parseable, strictly later last_seen wins, then
\* strictly more extras, else the earlier entry; the call leaves exactly
\* these survivors.
C22_SurvivorFollowsCollisionRule ==
    sPhase = "deduplicated" =>
        /\ ~sOut.raised
        /\ SeqRange(sOut.entries) = ClaimScanSurvivors

\* C24: deduplicate_scan_entries completes without raising for every input
\* list, whatever forms of last_seen the colliding entries carry.
C24_ScanDedupNeverRaises ==
    sPhase = "deduplicated" => ~sOut.raised

\* When the call returns, its survivors are those of the collision rule.
ScanRuleHoldsOnReturn ==
    (sPhase = "deduplicated" /\ ~sOut.raised) => SeqRange(sOut.entries) = ClaimScanSurvivors

(***************************************************************************)
(* Code-table specification: an input value is drawn, the encoder of the   *)
(* chosen table is applied, then the matching decoder.                     *)
(***************************************************************************)
CodeFns == {"polarization", "fec", "modulation", "bandwidth"}

\* Inputs beyond the declared keys: lower case, padded, unknown, empty, None.
PolarizationInputs ==
    TableKeys(POLARIZATION_CODES)
    \cup {PyStr(<<"h">>), PyStr(<<" ","V"," ">>), PyStr(<<"X">>), PyStr(<<>>), PyNone}

FecInputs ==
    TableKeys(FEC_CODES)
    \cup {PyStr(<<"a","u","t","o">>), PyStr(<<" ","3","/","4">>), PyStr(<<"1","/","3">>),
          PyStr(<<>>), PyNone}

ModulationInputs ==
    TableKeys(MODULATION_SAT_CODES) \cup TableKeys(CONSTELLATION_CODES)
    \cup {PyStr(<<"q","p","s","k">>), PyStr(<<"8","V","S","B">>), PyStr(<<>>), PyNone}

BandwidthInputs ==
    TableKeys(BANDWIDTH_CODES)
    \cup {PyInt(7999999), PyInt(7500000), PyInt(7499999), PyInt(6500000), PyInt(6499999),
          PyInt(5000000), PyInt(4999999), PyInt(1), PyInt(8000001), PyNone}

CodeInputs(fn) ==
    CASE fn = "polarization" -> PolarizationInputs
      [] fn = "fec" -> FecInputs
      [] fn = "modulation" -> ModulationInputs
      [] fn = "bandwidth" -> BandwidthInputs

\* The table whose keys are the declared values of (fn, delivery).
CodeTable(fn, delivery) ==
    CASE fn = "polarization" -> POLARIZATION_CODES
      [] fn = "fec" -> FEC_CODES
      [] fn = "modulation" /\ delivery = "sat" -> MODULATION_SAT_CODES
      [] fn = "modulation" /\ delivery # "sat" -> CONSTELLATION_CODES
      [] fn = "bandwidth" -> BANDWIDTH_CODES

\* An attribute or comparison error of the encoder: str methods on a
\* non-str value, integer comparison on a non-int value.
EncoderRaises(fn, x) ==
    CASE fn = "polarization" -> ~Falsy(x) /\ x.t # "str"
      [] fn = "fec" -> FALSE
      [] fn = "modulation" -> ~Falsy(x) /\ x.t # "str"
      [] fn = "bandwidth" -> ~Falsy(x) /\ x.t # "int"

X_to_code(fn, delivery, x) ==
    CASE fn = "polarization" -> polarization_to_code(x)
      [] fn = "fec" -> fec_to_code(x)
      [] fn = "modulation" -> modulation_to_code(x, delivery)
      [] fn = "bandwidth" -> bandwidth_to_code(x)

code_to_X(fn, delivery, code) ==
    CASE fn = "polarization" -> code_to_polarization(code)
      [] fn = "fec" -> code_to_fec(code)
      [] fn = "modulation" /\ delivery = "sat" -> code_to_modulation_sat(code)
      [] fn = "modulation" /\ delivery # "sat" -> code_to_constellation(code)
      [] fn = "bandwidth" -> code_to_bandwidth(code)

CodesInit ==
    /\ cFn \in CodeFns
    /\ cDelivery \in (IF cFn = "modulation" THEN {"sat", "cable", "terrestrial"} ELSE {"sat"})
    /\ cIn \in CodeInputs(cFn)
    /\ cOut = [raised |-> FALSE, code |-> NoCode]
    /\ cBack = PyNone
    /\ cPhase = "input"

CodesIdle ==
    /\ cFn = "polarization"
    /\ cDelivery = "sat"
    /\ cIn = PyNone
    /\ cOut = [raised |-> FALSE, code |-> NoCode]
    /\ cBack = PyNone
    /\ cPhase = "idle"

Encode ==
    /\ cPhase = "input"
    /\ cOut' = IF EncoderRaises(cFn, cIn)
               THEN [raised |-> TRUE, code |-> NoCode]
               ELSE [raised |-> FALSE, code |-> X_to_code(cFn, cDelivery, cIn)]
    /\ cPhase' = "encoded"
    /\ UNCHANGED <<cFn, cDelivery, cIn, cBack>>
    /\ UNCHANGED otherThanCodes

Decode ==
    /\ cPhase = "encoded"
    /\ ~cOut.raised
    /\ cBack' = code_to_X(cFn, cDelivery, cOut.code)
    /\ cPhase' = "decoded"
    /\ UNCHANGED <<cFn, cDelivery, cIn, cOut>>
    /\ UNCHANGED otherThanCodes

CodesNext == Encode \/ Decode


Declared(fn, delivery, x) == TableHas(CodeTable(fn, delivery), x)

\* FEC keys that the source declares as aliases of AUTO.
FecAliases == {PyStr(<<"N","O","N","E">>), PyStr(<<"0">>), PyStr(<<"9">>)}

\* C9 (as stated): for every declared key v of the polarization, FEC,
\* satellite-modulation, constellation and bandwidth tables, decoding the
\* code of v gives v back.
C9_RoundTripAllDeclared ==
    (cPhase = "decoded" /\ Declared(cFn, cDelivery, cIn)) => PyEq(cBack, cIn)

\* C9 (amended): the round trip gives v back for the polarization,
\* satellite-modulation and constellation tables and for the FEC keys other
\* than the aliases NONE, "0" and "9", which decode to AUTO; a bandwidth key
\* decodes to its label (8MHz, 7MHz, 6MHz), and the key 0 encodes as 3 and
\* decodes to AUTO.
C9_RoundTripAmended ==
    (cPhase = "decoded" /\ Declared(cFn, cDelivery, cIn)) =>
        CASE cFn = "fec" ->
                IF cIn \in FecAliases
                THEN PyEq(cBack, PyStr(<<"A","U","T","O">>))
                ELSE PyEq(cBack, cIn)
          [] cFn = "bandwidth" ->
                /\ cIn.v = 8000000 => PyEq(cBack, PyStr(<<"8","M","H","z">>))
                /\ cIn.v = 7000000 => PyEq(cBack, PyStr(<<"7","M","H","z">>))
                /\ cIn.v = 6000000 => PyEq(cBack, PyStr(<<"6","M","H","z">>))
                /\ cIn.v = 0 => (cOut.code = 3 /\ PyEq(cBack, PyStr(<<"A","U","T","O">>)))
          [] OTHER -> PyEq(cBack, cIn)

C9_Witness ==
    /\ cPhase = "decoded"
    /\ cFn = "fec"
    /\ cIn = PyStr(<<"A","U","T","O">>)
    /\ cOut.code = 0
    /\ PyEq(cBack, cIn)

\* Recognised input: the stripped upper-case text (or the integer) is a key.
Recognised(fn, delivery, x) ==
    /\ ~Falsy(x)
    /\ IF x.t = "str"
       THEN TableHas(CodeTable(fn, delivery), PyStr(StrStrip(StrUpper(x.v))))
       ELSE TableHas(CodeTable(fn, delivery), x)

DocumentedDefault(fn, delivery) ==
    CASE fn = "polarization" -> 0
      [] fn = "fec" -> 0
      [] fn = "modulation" -> (IF delivery = "sat" THEN 1 ELSE 6)
      [] fn = "bandwidth" -> 3

HexDigits == <<"0","1","2","3","4","5","6","7","8","9","a","b","c","d","e","f">>

\* int(c, 16) of one (lower-cased) digit
HexDigitValue(c) == (CHOOSE i \in 1..16 : HexDigits[i] = LowerChar(c)) - 1

\* int(text, 16)
RECURSIVE HexValue(_)
HexValue(text) ==
    IF text = <<>> THEN 0
    ELSE 16 * HexValue(SubSeq(text, 1, Len(text) - 1)) + HexDigitValue(text[Len(text)])

\* f"{n:04x}" for 0 <= n < 65536
Hex04(n) ==
    << HexDigits[((n \div 4096) % 16) + 1], HexDigits[((n \div 256) % 16) + 1],
       HexDigits[((n \div 16) % 16) + 1], HexDigits[(n % 16) + 1] >>

\* the printable ASCII characters chr(32) .. chr(95)
AsciiLow ==
    << " ", "!", "\"", "#", "$", "%", "&", "'", "(", ")", "*", "+", ",", "-", ".", "/",
       "0", "1", "2", "3", "4", "5", "6", "7", "8", "9", ":", ";", "<", "=", ">", "?",
       "@", "A", "B", "C", "D", "E", "F", "G", "H", "I", "J", "K", "L", "M", "N", "O",
       "P", "Q", "R", "S", "T", "U", "V", "W", "X", "Y", "Z", "[", "\\", "]", "^", "_" >>

\* the printable ASCII characters chr(97) .. chr(126)
AsciiHigh ==
    << "a", "b", "c", "d", "e", "f", "g", "h", "i", "j", "k", "l", "m", "n", "o",
       "p", "q", "r", "s", "t", "u", "v", "w", "x", "y", "z", "{", "|", "}", "~" >>

Ascii == AsciiLow \o AsciiHigh

\* ord(c) for a printable ASCII character (other than the grave accent)
CharCode(c) ==
    IF \E i \in 1..Len(AsciiLow) : AsciiLow[i] = c
    THEN 31 + (CHOOSE i \in 1..Len(AsciiLow) : AsciiLow[i] = c)
    ELSE 96 + (CHOOSE i \in 1..Len(AsciiHigh) : AsciiHigh[i] = c)

\* Python a < b on str
RECURSIVE StrLess(_, _)
StrLess(a, b) ==
    IF b = <<>> THEN FALSE
    ELSE IF a = <<>> THEN TRUE
    ELSE IF Head(a) = Head(b) THEN StrLess(Tail(a), Tail(b))
    ELSE CharCode(Head(a)) < CharCode(Head(b))

\* The Service of a lamedb entry "sid:namespace:tsid:onid:type:..." with the
\* given name and provider line; tsid and onid are written tsidText/onidText.
parse_service_entry(sid, namespace_hex, tsid_hex, onid_hex, service_type, provider, name) ==
    LET trans_key == StrLower(namespace_hex) \o <<":">> \o StrLower(tsid_hex)
                     \o <<":">> \o StrLower(onid_hex)
    IN [key |-> trans_key \o <<":">> \o Hex04(sid),
        name |-> name,
        service_type |-> service_type,
        service_id |-> sid,
        transponder_key |-> trans_key,
        original_network_id |-> HexValue(onid_hex),
        transport_stream_id |-> HexValue(tsid_hex),
        namespace |-> HexValue(namespace_hex),
        provider |-> provider]

\* _service_identity with the service type left out of the payload.
service_identity_without_type(service) ==
    << service.original_network_id, service.transport_stream_id,
       service.service_id, service.namespace >>

\* _service_identity: the sha1 digest of "onid:tsid:sid:namespace:type";
\* two services have the same digest exactly when the five numbers agree.
service_identity(service) ==
    << service.original_network_id, service.transport_stream_id,
       service.service_id, service.namespace, service.service_type >>

\* _score_service without the service key, so that two services may tie.
score_service_without_key(service, priority, freshness_score) ==
    [priority |-> priority,
     freshness |-> -freshness_score,
     provider_penalty |-> IF Falsy(service.provider) THEN 1 ELSE 0,
     name_length |-> IF service.name = <<>> THEN 0 ELSE -Len(StrStrip(service.name)),
     key |-> <<>>]

\* _score_service with the name length counted upwards (shorter name first)
score_service_shorter_name_first(service, priority, freshness_score) ==
    [priority |-> priority,
     freshness |-> -freshness_score,
     provider_penalty |-> IF Falsy(service.provider) THEN 1 ELSE 0,
     name_length |-> IF service.name = <<>> THEN 0 ELSE Len(StrStrip(service.name)),
     key |-> service.key]

\* _score_service: the tuple (priority, -freshness_score, provider_penalty,
\* name_length, service.key).
score_service(service, priority, freshness_score) ==
    [priority |-> priority,
     freshness |-> -freshness_score,
     provider_penalty |-> IF Falsy(service.provider) THEN 1 ELSE 0,
     name_length |-> IF service.name = <<>> THEN 0 ELSE -Len(StrStrip(service.name)),
     key |-> service.key]

\* score < kept_score on the tuples (lexicographic)
ScoreLess(a, b) ==
    IF a.priority # b.priority THEN a.priority < b.priority
    ELSE IF a.freshness # b.freshness THEN a.freshness < b.freshness
    ELSE IF a.provider_penalty # b.provider_penalty THEN a.provider_penalty < b.provider_penalty
    ELSE IF a.name_length # b.name_length THEN a.name_length < b.name_length
    ELSE StrLess(a.key, b.key)

\* A bouquet entry's service_ref "1:0:type:sid:tsid:onid:namespace:0:0:0:" is
\* the record of its fields 3..6 (hexadecimal texts).
\* _service_ref_to_key: "namespace:tsid:onid:" lower-cased, then sid as %04x.
service_ref_to_key(service_ref) ==
    StrLower(service_ref.namespace) \o <<":">> \o StrLower(service_ref.tsid) \o <<":">>
    \o StrLower(service_ref.onid) \o <<":">> \o Hex04(HexValue(service_ref.sid))

\* candidates.get(identity): the index of the candidate, 0 for None
CandidateIndex(candidates, identity) ==
    IF \E i \in 1..Len(candidates) : candidates[i].identity = identity
    THEN CHOOSE i \in 1..Len(candidates) : candidates[i].identity = identity
    ELSE 0

\* new_services.pop(key, None)
DictPop(services, key) == SelectSeq(services, LAMBDA s : s.key # key)

\* new_services[key] = service (an existing key keeps its position)
DictSet(services, service) ==
    IF \E i \in 1..Len(services) : services[i].key = service.key
    THEN [i \in 1..Len(services) |->
            IF services[i].key = service.key THEN service ELSE services[i]]
    ELSE Append(services, service)

\* One iteration of the loop of _deduplicate_profile.
DedupStep(acc, service, priority, freshness_score) ==
    LET identity == service_identity(service)
        score == score_service(service, priority, freshness_score)
        idx == CandidateIndex(acc.candidates, identity)
        mine == [identity |-> identity, key |-> service.key,
                 service |-> service, score |-> score]
    IN IF idx = 0
       THEN [candidates |-> Append(acc.candidates, mine),
             new_services |-> DictSet(acc.new_services, service),
             removed |-> acc.removed]
       ELSE LET existing == acc.candidates[idx]
            IN IF ScoreLess(score, existing.score)
               THEN [candidates |-> [acc.candidates EXCEPT ![idx] = mine],
                     new_services |-> DictSet(DictPop(acc.new_services, existing.key), service),
                     removed |-> Append(acc.removed,
                                   [identity |-> identity, kept |-> service,
                                    dropped |-> existing.service])]
               ELSE [candidates |-> acc.candidates,
                     new_services |-> acc.new_services,
                     removed |-> Append(acc.removed,
                                   [identity |-> identity, kept |-> existing.service,
                                    dropped |-> service])]

RECURSIVE DedupLoop(_, _, _, _)
DedupLoop(acc, services, priority, freshness_score) ==
    IF services = <<>> THEN acc
    ELSE DedupLoop(DedupStep(acc, Head(services), priority, freshness_score),
                   Tail(services), priority, freshness_score)

\* bouquet.entries filtered to the surviving keys; empty bouquets dropped
PruneBouquets(bouquets, new_services) ==
    LET valid_keys == {new_services[i].key : i \in 1..Len(new_services)}
        pruned == [b \in 1..Len(bouquets) |->
                     [name |-> bouquets[b].name,
                      entries |-> SelectSeq(bouquets[b].entries,
                                    LAMBDA e : service_ref_to_key(e) \in valid_keys)]]
    IN SelectSeq(pruned, LAMBDA b : b.entries # <<>>)

\* _deduplicate_profile: the new profile.services, profile.bouquets,
\* metadata["service_count"] and the returned records.
deduplicate_profile(services, bouquets, priority, freshness_score) ==
    LET acc == DedupLoop([candidates |-> <<>>, new_services |-> <<>>, removed |-> <<>>],
                         services, priority, freshness_score)
    IN [services |-> acc.new_services,
        bouquets |-> PruneBouquets(bouquets, acc.new_services),
        service_count |-> Len(acc.new_services),
        removed |-> acc.removed]

\* int(profile.metadata.get("source_priority", "100")) of a loaded profile
DefaultSourcePriority == 100

MaxServices == 3

Vendor == PyStr(<<"V">>)

\* lamedb service entries: (sid, namespace, tsid, onid, type, provider, name)
DedupServices ==
    << parse_service_entry(1, <<"1">>, <<"1">>, <<"1">>, 1, Vendor, <<"A","B">>),
       parse_service_entry(1, <<"0","1">>, <<"1">>, <<"1">>, 1, Vendor, <<"A","B">>),
       parse_service_entry(1, <<"0","0","1">>, <<"1">>, <<"1">>, 1, PyNone, <<"A","B","C">>),
       parse_service_entry(1, <<"0","0","0","1">>, <<"1">>, <<"1">>, 1, Vendor, <<"A">>),
       parse_service_entry(2, <<"1">>, <<"1">>, <<"1">>, 1, Vendor, <<"A","B">>),
       parse_service_entry(1, <<"A">>, <<"1">>, <<"1">>, 25, PyNone, <<>>),
       parse_service_entry(1, <<"0","a">>, <<"1">>, <<"1">>, 1, PyNone, <<"A","B">>),
       parse_service_entry(1, <<"0","0","a">>, <<"1">>, <<"1">>, 1, PyNone, <<>>) >>

DedupServiceIds == 1..Len(DedupServices)

\* The id of a service of DedupServices (its key is unique, as in a dict).
ServiceId(service) == CHOOSE id \in DedupServiceIds : DedupServices[id].key = service.key

ServiceRef(sid, tsid, onid, namespace) ==
    [sid |-> sid, tsid |-> tsid, onid |-> onid, namespace |-> namespace]

\* profile.bouquets of the loaded profile
BouquetInputs ==
    << <<>>,
       << [name |-> "Favourites",
           entries |-> << ServiceRef(<<"1">>, <<"1">>, <<"1">>, <<"1">>),
                          ServiceRef(<<"0","0","0","1">>, <<"1">>, <<"1">>, <<"0","1">>) >>] >>,
       << [name |-> "Favourites",
           entries |-> << ServiceRef(<<"2">>, <<"1">>, <<"1">>, <<"1">>) >>],
          [name |-> "HD",
           entries |-> << ServiceRef(<<"1">>, <<"1">>, <<"1">>, <<"A">>) >>] >> >>

\* int(datetime.now(timezone.utc).timestamp()) at the call
DedupClock == {1000, 2000}

\* dicts of at most n services: sequences of distinct keys
DedupInputs(n) ==
    {q \in SeqsUpTo(DedupServiceIds, n) :
        \A i, j \in 1..Len(q) : i # j => q[i] # q[j]}

\* profile.services as a sequence of services (dServices holds the ids)
ServicesOf(ids) == [i \in 1..Len(ids) |-> DedupServices[ids[i]]]

DedupNoResult == [services |-> <<>>, bouquets |-> <<>>, service_count |-> 0, removed |-> <<>>]

\* The result with every service replaced by its id.
DedupIds(result) ==
    [services |-> [i \in 1..Len(result.services) |-> ServiceId(result.services[i])],
     bouquets |-> result.bouquets,
     service_count |-> result.service_count,
     removed |-> [i \in 1..Len(result.removed) |->
                    [kept |-> ServiceId(result.removed[i].kept),
                     dropped |-> ServiceId(result.removed[i].dropped)]]]

DedupInit ==
    /\ dServices \in DedupInputs(MaxServices)
    /\ dBouquets \in 1..Len(BouquetInputs)
    /\ dNow \in DedupClock
    /\ dOut = DedupNoResult
    /\ dPhase = "input"

DedupIdle ==
    /\ dServices = <<>>
    /\ dBouquets = 1
    /\ dNow = 0
    /\ dOut = DedupNoResult
    /\ dPhase = "idle"

DeduplicateProfile ==
    /\ dPhase = "input"
    /\ dOut' = DedupIds(deduplicate_profile(ServicesOf(dServices), BouquetInputs[dBouquets],
                                            DefaultSourcePriority, dNow))
    /\ dPhase' = "deduplicated"
    /\ UNCHANGED <<dServices, dBouquets, dNow>>
    /\ UNCHANGED otherThanDedup

DedupNext == DeduplicateProfile

\* The orders in which the same services can be inserted into the dict.
InsertionOrders(ids) ==
    {q \in [1..Len(ids) -> SeqRange(ids)] : SeqRange(q) = SeqRange(ids)}

\* The surviving services of a call on the given insertion order.
Survivors(ids) ==
    LET result == deduplicate_profile(ServicesOf(ids), BouquetInputs[dBouquets],
                                      DefaultSourcePriority, dNow)
    IN {ServiceId(result.services[i]) : i \in 1..Len(result.services)}

\* C1: whatever the insertion order of the same services in profile.services,
\* _deduplicate_profile leaves the same set of surviving services.
C1_DedupOrderIndependent ==
    dPhase = "deduplicated" =>
        \A q \in InsertionOrders(dServices) : Survivors(q) = SeqRange(dOut.services)

\* Three services, two of one identity, and the survivor of the two is not
\* the one inserted first.
C1_Witness ==
    /\ dPhase = "deduplicated"
    /\ Len(dServices) = 3
    /\ \E i, j \in 1..3 :
          /\ i < j
          /\ service_identity(DedupServices[dServices[i]]) = service_identity(DedupServices[dServices[j]])
          /\ dServices[j] \in SeqRange(dOut.services)
          /\ dServices[i] \notin SeqRange(dOut.services)

\* The identity of the claim: original_network_id, transport_stream_id,
\* service_id, namespace and service_type.
ClaimServiceIdentity(id) ==
    LET s == DedupServices[id]
    IN [onid |-> s.original_network_id, tsid |-> s.transport_stream_id,
        sid |-> s.service_id, namespace |-> s.namespace, type |-> s.service_type]

\* C2: after _deduplicate_profile, profile.services holds at most one service
\* per identity, and every identity of the services present before the call
\* is represented by exactly one surviving service (a service of the input).
C2_OneServicePerIdentity ==
    dPhase = "deduplicated" =>
        /\ \A i, j \in 1..Len(dOut.services) :
              i # j => ClaimServiceIdentity(dOut.services[i]) # ClaimServiceIdentity(dOut.services[j])
        /\ SeqRange(dOut.services) \subseteq SeqRange(dServices)
        /\ {ClaimServiceIdentity(id) : id \in SeqRange(dOut.services)}
             = {ClaimServiceIdentity(id) : id \in SeqRange(dServices)}

\* Services that differ in the service type only both survive, while a
\* duplicate identity has been dropped.
C2_Witness ==
    /\ dPhase = "deduplicated"
    /\ Len(dOut.services) < Len(dServices)
    /\ \E i, j \in 1..Len(dOut.services) :
          LET a == DedupServices[dOut.services[i]]
              b == DedupServices[dOut.services[j]]
          IN a.namespace = b.namespace /\ a.service_id = b.service_id
             /\ a.service_type # b.service_type

\* The order of the claim on two services of one profile (same priority,
\* same freshness): with provider first, then the longer stripped name, then
\* the smaller service key.
ClaimScoreBefore(a, b) ==
    LET sa == DedupServices[a]
        sb == DedupServices[b]
        hasA == sa.provider # PyNone
        hasB == sb.provider # PyNone
        lenA == Len(StrStrip(sa.name))
        lenB == Len(StrStrip(sb.name))
    IN IF hasA # hasB THEN hasA
       ELSE IF lenA # lenB THEN lenA > lenB
       ELSE StrLess(sa.key, sb.key)

\* C19: in every identity group, the service kept by _deduplicate_profile is
\* the one with the smallest score vector: it comes before every other
\* service of its group in the order (priority, newest first, with provider
\* first, longer stripped name first, service key).
C19_SurvivorHasSmallestScore ==
    dPhase = "deduplicated" =>
        \A kept \in SeqRange(dOut.services) : \A other \in SeqRange(dServices) :
            (other # kept /\ ClaimServiceIdentity(other) = ClaimServiceIdentity(kept))
                => ClaimScoreBefore(kept, other)

\* A group of three in which the survivor was inserted last and wins on the
\* name length against one service and on the provider against another.
C19_Witness ==
    /\ dPhase = "deduplicated"
    /\ Len(dServices) = 3
    /\ Len(dOut.services) = 1
    /\ dOut.services[1] = dServices[3]
    /\ \E i, j \in 1..2 :
          /\ DedupServices[dServices[i]].provider = PyNone
          /\ DedupServices[dServices[j]].provider # PyNone
          /\ Len(DedupServices[dServices[j]].name) < Len(DedupServices[dServices[3]].name)

\* C20: for an identity group of n services _deduplicate_profile returns
\* exactly n-1 records of that identity, each naming as dropped a distinct
\* service that is absent from profile.services afterwards, and as kept the
\* survivor of the group, which is present in profile.services afterwards.
C20_RecordsDescribeOutcome ==
    dPhase = "deduplicated" =>
        /\ \A s \in SeqRange(dServices) :
              Cardinality({i \in 1..Len(dOut.removed) :
                              ClaimServiceIdentity(dOut.removed[i].dropped) = ClaimServiceIdentity(s)})
                = Cardinality({t \in SeqRange(dServices) :
                                  ClaimServiceIdentity(t) = ClaimServiceIdentity(s)}) - 1
        /\ \A i, j \in 1..Len(dOut.removed) :
              i # j => dOut.removed[i].dropped # dOut.removed[j].dropped
        /\ \A i \in 1..Len(dOut.removed) :
              /\ dOut.removed[i].dropped \notin SeqRange(dOut.services)
              /\ dOut.removed[i].kept \in SeqRange(dOut.services)
              /\ ClaimServiceIdentity(dOut.removed[i].kept)
                   = ClaimServiceIdentity(dOut.removed[i].dropped)

\* The reference names the service by its four numbers.
ClaimDenotes(ref, service) ==
    /\ HexValue(ref.namespace) = service.namespace
    /\ HexValue(ref.tsid) = service.transport_stream_id
    /\ HexValue(ref.onid) = service.original_network_id
    /\ HexValue(ref.sid) = service.service_id

\* The bouquets of the input with the entries that name a surviving
\* service, in their order, without the bouquets that keep no entry
ClaimPrunedBouquets ==
    LET bouquets == BouquetInputs[dBouquets]
        kept(entries) ==
            SelectSeq(entries, LAMBDA e :
                \E id \in SeqRange(dOut.services) : ClaimDenotes(e, DedupServices[id]))
        pruned == [b \in 1..Len(bouquets) |->
                     [name |-> bouquets[b].name, entries |-> kept(bouquets[b].entries)]]
    IN SelectSeq(pruned, LAMBDA b : b.entries # <<>>)

\* C21: after _deduplicate_profile a bouquet entry is retained exactly when
\* its reference denotes, by namespace, tsid, onid and sid, a service still
\* in profile.services; retained entries keep their order, and exactly the
\* bouquets left without entries are removed.
C21_BouquetsPrunedByDenotedService ==
    dPhase = "deduplicated" => dOut.bouquets = ClaimPrunedBouquets

(***************************************************************************)
(* adapters/m3u.py: playlist ingestion (M3UAdapter.ingest, _parse_m3u).    *)
(* A playlist is the sequence of its non-blank lines.  A stream line is    *)
(* the record urlparse returns for it: scheme, hostname (None when the     *)
(* line has no network location) and path.                                 *)
(***************************************************************************)
\* sub in s
Contains(s, sub) ==
    \E i \in 1..(Len(s) - Len(sub) + 1) : SubSeq(s, i, i + Len(sub) - 1) = sub

\* _collect_allowed_domains: every non-blank entry, stripped and lower-cased
collect_allowed_domains(domains) ==
    {StrLower(StrStrip(domains[i])) : i \in {j \in 1..Len(domains) : StrStrip(domains[j]) # <<>>}}

LoopbackPrefix == <<"1","2","7",".">>
PrivatePrefixA == <<"1","0",".">>
PrivatePrefixC == <<"1","9","2",".","1","6","8",".">>
PrivatePrefixB == <<"1","7","2",".">>
BlockedPattern == <<"g","e","t",".","p","h","p">>

\* _validate_stream_url without the private/loopback address test.
validate_stream_url_no_private_test(url, allowed_domains) ==
    LET host == StrLower(OrEmpty(url.hostname))
    IN IF url.scheme \notin {"http", "https"} THEN "scheme"
       ELSE IF allowed_domains # {} /\ host \notin allowed_domains THEN "domain"
       ELSE IF Contains(StrLower(url.path), BlockedPattern) THEN "pattern"
       ELSE "ok"

\* _validate_stream_url: "ok" when it returns the parsed url, else the test
\* that raised ValueError.
validate_stream_url(url, allowed_domains) ==
    LET host == StrLower(OrEmpty(url.hostname))
    IN IF url.scheme \notin {"http", "https"} THEN "scheme"
       ELSE IF \/ StartsWith(host, LoopbackPrefix) \/ StartsWith(host, PrivatePrefixA)
               \/ StartsWith(host, PrivatePrefixC) \/ StartsWith(host, PrivatePrefixB)
            THEN "private"
       ELSE IF allowed_domains # {} /\ host \notin allowed_domains THEN "domain"
       ELSE IF Contains(StrLower(url.path), BlockedPattern) THEN "pattern"
       ELSE "ok"

DefaultGroup == <<"M","3","U">>
DefaultProvider == <<"M","3","U">>

\* One line of the loop of _parse_m3u.  acc.current_name is PyNone or the
\* name of the preceding #EXTINF line, acc.current_group its group-title.
ParseM3ULine(acc, line, allowed_domains) ==
    IF acc.raised THEN acc
    ELSE IF line.kind = "extinf"
    THEN [acc EXCEPT !.current_name = PyStr(line.name), !.current_group = PyStr(line.group)]
    ELSE IF line.kind = "comment" THEN acc
    ELSE LET verdict == validate_stream_url(line, allowed_domains)
             current_name == IF Falsy(acc.current_name) THEN PyStr(line.text)
                             ELSE acc.current_name
             group_title == IF Falsy(acc.current_group) THEN DefaultGroup
                            ELSE acc.current_group.v
             trans_key == <<"m","3","u",":">> \o StrLower(group_title)
             service == [key |-> <<trans_key, acc.service_counter>>,
                         name |-> current_name.v,
                         service_id |-> acc.service_counter,
                         transponder_key |-> trans_key,
                         provider |-> DefaultProvider,
                         stream_host |-> OrEmpty(line.hostname),
                         stream_scheme |-> line.scheme]
         IN IF verdict # "ok"
            THEN [acc EXCEPT !.raised = TRUE, !.error = verdict]
            ELSE [acc EXCEPT
                    !.transponders = acc.transponders \cup {trans_key},
                    !.services = Append(acc.services, service),
                    !.bouquets = IF \E b \in 1..Len(acc.bouquets) : acc.bouquets[b].name = group_title
                                 THEN [b \in 1..Len(acc.bouquets) |->
                                         IF acc.bouquets[b].name = group_title
                                         THEN [acc.bouquets[b] EXCEPT
                                                 !.entries = Append(@, service.key)]
                                         ELSE acc.bouquets[b]]
                                 ELSE Append(acc.bouquets,
                                             [name |-> group_title, entries |-> <<service.key>>]),
                    !.service_counter = acc.service_counter + 1,
                    !.current_name = PyNone,
                    !.current_group = PyNone]

RECURSIVE ParseM3ULoop(_, _, _)
ParseM3ULoop(acc, lines, allowed_domains) ==
    IF lines = <<>> THEN acc
    ELSE ParseM3ULoop(ParseM3ULine(acc, Head(lines), allowed_domains), Tail(lines), allowed_domains)

\* _parse_m3u: the profile of one playlist, or the ValueError raised.
parse_m3u(lines, allowed_domains) ==
    IF allowed_domains = {}
    THEN [raised |-> TRUE, error |-> "no-allow-list", services |-> <<>>,
          transponders |-> {}, bouquets |-> <<>>]
    ELSE LET acc == ParseM3ULoop([raised |-> FALSE, error |-> "none", services |-> <<>>,
                                  transponders |-> {}, bouquets |-> <<>>,
                                  service_counter |-> 1,
                                  current_name |-> PyNone, current_group |-> PyNone],
                                 lines, allowed_domains)
         IN [raised |-> acc.raised, error |-> acc.error,
             services |-> IF acc.raised THEN <<>> ELSE acc.services,
             transponders |-> IF acc.raised THEN {} ELSE acc.transponders,
             bouquets |-> IF acc.raised THEN <<>> ELSE acc.bouquets]

\* M3UAdapter.ingest on a source directory holding the given playlists: the
\* list of profiles, or nothing when a playlist raised.
m3u_ingest(files, domains) ==
    LET allowed_domains == collect_allowed_domains(domains)
        parsed == [f \in 1..Len(files) |-> parse_m3u(files[f], allowed_domains)]
    IN IF \E f \in 1..Len(files) : parsed[f].raised
       THEN [raised |-> TRUE,
             error |-> parsed[CHOOSE f \in 1..Len(files) :
                                 parsed[f].raised /\ \A g \in 1..(f - 1) : ~parsed[g].raised].error,
             profiles |-> <<>>]
       ELSE [raised |-> FALSE, error |-> "none",
             profiles |-> [f \in 1..Len(files) |->
                             [services |-> parsed[f].services,
                              transponders |-> parsed[f].transponders,
                              bouquets |-> parsed[f].bouquets]]]

MaxPlaylist == 3

\* The lines a playlist is made of: stream lines as urlparse reads them, an
\* #EXTINF line and a comment line.
M3ULines ==
    << [kind |-> "url", text |-> <<"h","t","t","p",":","/","/","t","v","/","s">>, scheme |-> "http", hostname |-> PyStr(<<"t","v">>), path |-> <<"/","s">>],
       [kind |-> "url", text |-> <<"h","t","t","p","s",":","/","/","c","d","n","/","s">>, scheme |-> "https", hostname |-> PyStr(<<"c","d","n">>), path |-> <<"/","s">>],
       [kind |-> "url", text |-> <<"r","t","s","p",":","/","/","t","v","/","s">>, scheme |-> "rtsp", hostname |-> PyStr(<<"t","v">>), path |-> <<"/","s">>],
       [kind |-> "url", text |-> <<"h","t","t","p",":","/","/","1","2","7",".","0",".","0",".","1","/","s">>, scheme |-> "http", hostname |-> PyStr(<<"1","2","7",".","0",".","0",".","1">>), path |-> <<"/","s">>],
       [kind |-> "url", text |-> <<"h","t","t","p",":","/","/","1","0",".","0",".","0",".","1","/","s">>, scheme |-> "http", hostname |-> PyStr(<<"1","0",".","0",".","0",".","1">>), path |-> <<"/","s">>],
       [kind |-> "url", text |-> <<"h","t","t","p",":","/","/","1","9","2",".","1","6","8",".","0",".","1","/","s">>, scheme |-> "http", hostname |-> PyStr(<<"1","9","2",".","1","6","8",".","0",".","1">>), path |-> <<"/","s">>],
       [kind |-> "url", text |-> <<"h","t","t","p",":","/","/","1","7","2",".","1","6",".","0",".","1","/","s">>, scheme |-> "http", hostname |-> PyStr(<<"1","7","2",".","1","6",".","0",".","1">>), path |-> <<"/","s">>],
       [kind |-> "url", text |-> <<"h","t","t","p",":","/","/","x",".","t","v","/","s">>, scheme |-> "http", hostname |-> PyStr(<<"x",".","t","v">>), path |-> <<"/","s">>],
       [kind |-> "url", text |-> <<"h","t","t","p",":","/","/","t","v","/","g","e","t",".","p","h","p">>, scheme |-> "http", hostname |-> PyStr(<<"t","v">>), path |-> <<"/","g","e","t",".","p","h","p">>],
       [kind |-> "url", text |-> <<"h","t","t","p",":","/","/","/","s">>, scheme |-> "http", hostname |-> PyNone, path |-> <<"/","s">>],
       [kind |-> "extinf", name |-> <<"C","h">>, group |-> <<"N","e","w","s">>],
       [kind |-> "comment"] >>

M3ULineIds == 1..Len(M3ULines)

\* config["allowed_domains"] as written in the source configuration
AllowListInputs ==
    << <<>>,
       << <<"t","v">> >>,
       << <<" ","T","V"," ">>, <<"c","d","n">> >>,
       << <<"t","v">>, <<"1","0",".","0",".","0",".","1">> >> >>

PlaylistOf(ids) == [i \in 1..Len(ids) |-> M3ULines[ids[i]]]

M3UNoResult == [raised |-> FALSE, error |-> "none", profiles |-> <<>>]

M3UInit ==
    /\ mLines \in SeqsUpTo(M3ULineIds, MaxPlaylist)
    /\ mDomains \in 1..Len(AllowListInputs)
    /\ mOut = M3UNoResult
    /\ mPhase = "input"

M3UIdle ==
    /\ mLines = <<>>
    /\ mDomains = 1
    /\ mOut = M3UNoResult
    /\ mPhase = "idle"

M3UIngest ==
    /\ mPhase = "input"
    /\ mOut' = m3u_ingest(<<PlaylistOf(mLines)>>, AllowListInputs[mDomains])
    /\ mPhase' = "ingested"
    /\ UNCHANGED <<mLines, mDomains>>
    /\ UNCHANGED otherThanM3U

M3UNext == M3UIngest

\* The configured allow-list: the configured names, which are host names and
\* so compared without regard to case or surrounding blanks.
ClaimAllowList == collect_allowed_domains(AllowListInputs[mDomains])

\* The stream lines the claim forbids.
ClaimForbidden(line) ==
    /\ line.kind = "url"
    /\ \/ line.scheme \notin {"http", "https"}
       \/ \E p \in {LoopbackPrefix, PrivatePrefixA, PrivatePrefixB, PrivatePrefixC} :
              StartsWith(OrEmpty(line.hostname), p)
       \/ OrEmpty(line.hostname) \notin ClaimAllowList
       \/ Contains(line.path, BlockedPattern)

\* C4: a playlist with a stream URL of a scheme other than http(s), of a
\* loopback or private host, of a host outside the allow-list or of a path
\* containing get.php makes the ingestion raise and return no profile; so
\* every service of a returned profile has its stream host in the allow-list.
C4_PlaylistSecurityBoundary ==
    mPhase = "ingested" =>
        /\ (\E i \in 1..Len(mLines) : ClaimForbidden(M3ULines[mLines[i]]))
              => (mOut.raised /\ mOut.profiles = <<>>)
        /\ \A p \in 1..Len(mOut.profiles) : \A i \in 1..Len(mOut.profiles[p].services) :
              mOut.profiles[p].services[i].stream_host \in ClaimAllowList

\* A playlist whose first stream is acceptable and whose last one points to a
\* private address that the allow-list names: the ingestion raised.
C4_Witness ==
    /\ mPhase = "ingested"
    /\ Len(mLines) = 3
    /\ validate_stream_url(M3ULines[mLines[1]], ClaimAllowList) = "ok"
    /\ M3ULines[mLines[3]].kind = "url"
    /\ StartsWith(OrEmpty(M3ULines[mLines[3]].hostname), PrivatePrefixA)
    /\ OrEmpty(M3ULines[mLines[3]].hostname) \in ClaimAllowList
    /\ mOut.raised
    /\ mOut.profiles = <<>>

(***************************************************************************)
(* converter.py: the staleness gate (_ensure_fresh_profile).               *)
(* A timestamp text is the record of its form ("iso", "rfc2822", "junk";   *)
(* "none" for an absent or empty value) and of the age, in hours at the    *)
(* time of the call, of the instant it denotes.                            *)
(***************************************************************************)
NoTime == [form |-> "none", age |-> 0]
IsoTime(age) == [form |-> "iso", age |-> age]
RfcTime(age) == [form |-> "rfc2822", age |-> age]
JunkTime == [form |-> "junk", age |-> 0]

\* a or b on Optional[str]
TimeOr(a, b) == IF a.form = "none" THEN b ELSE a

NoTimestamp == [known |-> FALSE, age |-> 0]

\* _parse_iso_datetime: None for an absent value and on ValueError
parse_iso_datetime(value) ==
    IF value.form = "iso" THEN [known |-> TRUE, age |-> value.age] ELSE NoTimestamp

\* datetime.strptime(http_date, "%a, %d %b %Y %H:%M:%S %Z"); None on ValueError
parse_http_date(value) ==
    IF value.form = "rfc2822" THEN [known |-> TRUE, age |-> value.age] ELSE NoTimestamp

HoursPerDay == 24

\* age > timedelta(days=stale_after_days)
IsStale(age, stale_after_days) == age > stale_after_days * HoursPerDay

\* metadata.setdefault(key, value) on an entry that is "absent" when missing
SetDefault(current, value) == IF current = "absent" THEN value ELSE current

\* _ensure_fresh_profile, raising on stale data even with include_stale set.
ensure_fresh_profile_no_override(metadata, options, provenance) ==
    LET fetched_at == TimeOr(metadata.fetched_at, provenance.fetched_at)
        http_date == TimeOr(provenance.http_date, provenance.commit_date)
        parsed == IF parse_iso_datetime(fetched_at).known
                  THEN parse_iso_datetime(fetched_at) ELSE parse_iso_datetime(http_date)
        timestamp == IF ~parsed.known /\ http_date.form # "none"
                     THEN parse_http_date(http_date) ELSE parsed
    IN IF ~timestamp.known
       THEN [raised |-> FALSE, error |-> "none",
             last_seen |-> SetDefault(metadata.last_seen,
                                      IF fetched_at.form = "none" THEN "unknown" ELSE "fetched_at"),
             stale |-> SetDefault(metadata.stale, "unknown")]
       ELSE IF IsStale(timestamp.age, options.stale_after_days)
       THEN [raised |-> TRUE, error |-> "stale", last_seen |-> "timestamp", stale |-> "true"]
       ELSE [raised |-> FALSE, error |-> "none", last_seen |-> "timestamp", stale |-> "false"]

\* _ensure_fresh_profile: whether it raised ConversionError, and the
\* last_seen and stale entries of profile.metadata afterwards.
ensure_fresh_profile(metadata, options, provenance) ==
    LET fetched_at == TimeOr(metadata.fetched_at, provenance.fetched_at)
        http_date == TimeOr(provenance.http_date, provenance.commit_date)
        parsed == IF parse_iso_datetime(fetched_at).known
                  THEN parse_iso_datetime(fetched_at) ELSE parse_iso_datetime(http_date)
        timestamp == IF ~parsed.known /\ http_date.form # "none"
                     THEN parse_http_date(http_date) ELSE parsed
    IN IF ~timestamp.known
       THEN [raised |-> FALSE, error |-> "none",
             last_seen |-> SetDefault(metadata.last_seen,
                                      IF fetched_at.form = "none" THEN "unknown" ELSE "fetched_at"),
             stale |-> SetDefault(metadata.stale, "unknown")]
       ELSE IF IsStale(timestamp.age, options.stale_after_days)
       THEN [raised |-> ~options.include_stale,
             error |-> IF options.include_stale THEN "none" ELSE "stale",
             last_seen |-> "timestamp", stale |-> "true"]
       ELSE [raised |-> FALSE, error |-> "none", last_seen |-> "timestamp", stale |-> "false"]

\* Ages in hours: now, 30 days and one hour, 120 days, 120 days and one
\* hour, 200 days.
FreshAges == {0, 721, 2880, 2881, 4800}

StaleAfterDaysInputs == {30, 120}

Metadata(fetched_at) == [fetched_at |-> fetched_at, last_seen |-> "absent", stale |-> "absent"]

Provenance(fetched_at, http_date, commit_date) ==
    [fetched_at |-> fetched_at, http_date |-> http_date, commit_date |-> commit_date]

\* The metadata of a profile read by load_profile, and its provenance.
LoadedProfileMeta == [metadata |-> Metadata(NoTime), provenance |-> Provenance(NoTime, NoTime, NoTime)]

\* Profile metadata and provenance as ingest records them for a file, an
\* http (Date header) and a git (commit date) source, and provenance records
\* that lack the fetch time.
FreshInputs ==
    {LoadedProfileMeta}
    \cup {[metadata |-> Metadata(IsoTime(a)), provenance |-> Provenance(IsoTime(a), NoTime, NoTime)] :
            a \in FreshAges}
    \cup {[metadata |-> Metadata(IsoTime(a)), provenance |-> Provenance(IsoTime(a), h, NoTime)] :
            a \in FreshAges, h \in {RfcTime(b) : b \in FreshAges} \cup {JunkTime}}
    \cup {[metadata |-> Metadata(IsoTime(a)), provenance |-> Provenance(IsoTime(a), NoTime, IsoTime(b))] :
            a \in FreshAges, b \in FreshAges}
    \cup {[metadata |-> Metadata(NoTime), provenance |-> Provenance(IsoTime(a), NoTime, NoTime)] :
            a \in FreshAges}
    \cup {[metadata |-> Metadata(NoTime), provenance |-> Provenance(NoTime, h, NoTime)] :
            h \in {RfcTime(b) : b \in FreshAges} \cup {JunkTime}}
    \cup {[metadata |-> Metadata(NoTime), provenance |-> Provenance(NoTime, NoTime, IsoTime(b))] :
            b \in FreshAges}

FreshOptions == [include_stale : BOOLEAN, stale_after_days : StaleAfterDaysInputs]

FreshNoResult == [raised |-> FALSE, error |-> "none", last_seen |-> "absent", stale |-> "absent"]

FreshInit ==
    /\ fIn \in FreshInputs
    /\ fOpts \in FreshOptions
    /\ fOut = FreshNoResult
    /\ fPhase = "input"

FreshIdle ==
    /\ fIn = LoadedProfileMeta
    /\ fOpts = [include_stale |-> FALSE, stale_after_days |-> 120]
    /\ fOut = FreshNoResult
    /\ fPhase = "idle"

EnsureFreshProfile ==
    /\ fPhase = "input"
    /\ fOut' = ensure_fresh_profile(fIn.metadata, fOpts, fIn.provenance)
    /\ fPhase' = "checked"
    /\ UNCHANGED <<fIn, fOpts>>
    /\ UNCHANGED otherThanFresh

FreshNext == EnsureFreshProfile

\* The fetch timestamp of the claim: the fetch time recorded in the metadata
\* or the provenance, else the HTTP date, else the commit date.
ClaimFetchTimestamp ==
    LET candidates == << fIn.metadata.fetched_at, fIn.provenance.fetched_at,
                         fIn.provenance.http_date, fIn.provenance.commit_date >>
        denotes(i) == candidates[i].form \in {"iso", "rfc2822"}
    IN IF \E i \in 1..4 : denotes(i)
       THEN [known |-> TRUE,
             age |-> candidates[CHOOSE i \in 1..4 : denotes(i) /\ \A j \in 1..(i - 1) : ~denotes(j)].age]
       ELSE [known |-> FALSE, age |-> 0]

Hex08(n) == <<"0","0","0","0">> \o Hex04(n)

\* _service_to_ref: "1:0:type:sid:tsid:onid:namespace:0:0:0:"
service_to_ref(service) ==
    [service_type |-> service.service_type,
     sid |-> Hex04(service.service_id),
     tsid |-> Hex04(service.transport_stream_id),
     onid |-> Hex04(service.original_network_id),
     namespace |-> Hex08(service.namespace)]

\* io_neutrino._service_ref_to_key
neutrino_service_ref_to_key(service_ref) ==
    StrLower(service_ref.namespace) \o <<":">> \o StrLower(service_ref.tsid) \o <<":">>
    \o StrLower(service_ref.onid) \o <<":">> \o Hex04(HexValue(service_ref.sid))

\* is_radio of a parsed service (no f:radio flag)
IsRadio(service) == service.service_type \in {2, 10}

\* sorted(..., key=lambda svc: (svc.is_radio, svc.name.lower(), svc.service_id))
ServiceOrderLess(a, b) ==
    IF IsRadio(a) # IsRadio(b) THEN IsRadio(b)
    ELSE IF StrLower(a.name) # StrLower(b.name) THEN StrLess(StrLower(a.name), StrLower(b.name))
    ELSE a.service_id < b.service_id

\* sorted() is stable: a service goes behind the services that sort before
\* it and before the later services of equal key
RECURSIVE SortedServices(_)
SortedServices(list) ==
    IF list = <<>> THEN <<>>
    ELSE LET rest == SortedServices(Tail(list))
             k == Cardinality({i \in 1..Len(rest) : ServiceOrderLess(rest[i], Head(list))})
         IN SubSeq(rest, 1, k) \o << Head(list) >> \o SubSeq(rest, k + 1, Len(rest))

(***************************************************************************)
(* The regular expressions of converter.py, as re compiles them: a pattern *)
(* is a sequence of tokens, and pattern.search(text) holds when the tokens *)
(* match at some position of the text.  re.IGNORECASE is modelled by       *)
(* matching the lower-cased text (the patterns hold no upper-case letter). *)
(***************************************************************************)
Letters ==
    {"a","b","c","d","e","f","g","h","i","j","k","l","m",
     "n","o","p","q","r","s","t","u","v","w","x","y","z"}

Digits == {"0","1","2","3","4","5","6","7","8","9"}

\* \w on lower-cased ASCII text
WordChars == Letters \cup Digits \cup {"_"}

\* \s
Whitespace == {" ", "\t"}

\* . (any character but a newline)
AnyChar == {Ascii[i] : i \in 1..Len(Ascii)}

One(set) == [kind |-> "one", set |-> set]
Opt(set) == [kind |-> "opt", set |-> set]
Star(set) == [kind |-> "star", set |-> set]
Plus(set) == [kind |-> "plus", set |-> set]
Boundary == [kind |-> "boundary", set |-> {}]
NotBehind(set) == [kind |-> "notbehind", set |-> set]

\* a run of literal characters
Lit(chars) == [i \in 1..Len(chars) |-> One({chars[i]})]

\* the tokens match the text from position i on
RECURSIVE MatchFrom(_, _, _)
MatchFrom(tokens, text, i) ==
    IF tokens = <<>> THEN TRUE
    ELSE LET t == Head(tokens)
             rest == Tail(tokens)
             here == i <= Len(text) /\ text[i] \in t.set
             word(k) == k >= 1 /\ k <= Len(text) /\ text[k] \in WordChars
         IN CASE t.kind = "one" -> here /\ MatchFrom(rest, text, i + 1)
              [] t.kind = "opt" -> (here /\ MatchFrom(rest, text, i + 1))
                                   \/ MatchFrom(rest, text, i)
              [] t.kind = "star" -> (here /\ MatchFrom(tokens, text, i + 1))
                                    \/ MatchFrom(rest, text, i)
              [] t.kind = "plus" -> here /\ MatchFrom(<< Star(t.set) >> \o rest, text, i + 1)
              [] t.kind = "boundary" -> word(i - 1) # word(i) /\ MatchFrom(rest, text, i)
              [] t.kind = "notbehind" -> ~(i > 1 /\ text[i - 1] \in t.set)
                                         /\ MatchFrom(rest, text, i)

\* pattern.search(text) is not None, for a pattern compiled with re.IGNORECASE
Search(tokens, text) ==
    LET lowered == StrLower(text)
    IN \E i \in 1..(Len(text) + 1) : MatchFrom(tokens, lowered, i)

\* CATEGORY_ORDER_BASE (no category overrides, pay-tv or provider catalog is
\* bundled, so CATEGORY_ORDER is this list)
CATEGORY_ORDER ==
    << "Movies", "Series", "News", "Sports", "Kids", "Music", "Documentary",
      "Sky", "RTL", "ProSiebenSat.1", "ARD/ZDF", "ServusTV", "ORF", "BBC",
      "RAI", "TF1", "Nederland", "Austria", "Switzerland", "Spain", "Italy",
      "Poland", "PyTV", "Resolution - UHD", "Resolution - HD",
      "Resolution - SD", "Shopping", "Religion", "Adult", "International",
      "Regional", "UHD/4K", "Others" >>

\* CATEGORY_PATTERNS: the regular expressions of each category, in the
\* order of the dict
CATEGORY_PATTERNS ==
    ("Movies" :>
      << (* film *) Lit(<<"f","i","l","m">>),
         (* cine *) Lit(<<"c","i","n","e">>),
         (* movie *) Lit(<<"m","o","v","i","e">>),
         (* cinema *) Lit(<<"c","i","n","e","m","a">>) >>)
    @@
    ("Series" :>
      << (* serie *) Lit(<<"s","e","r","i","e">>),
         (* series *) Lit(<<"s","e","r","i","e","s">>),
         (* drama *) Lit(<<"d","r","a","m","a">>) >>)
    @@
    ("News" :>
      << (* news *) Lit(<<"n","e","w","s">>),
         (* nachrichten *) Lit(<<"n","a","c","h","r","i","c","h","t","e","n">>),
         (* journal *) Lit(<<"j","o","u","r","n","a","l">>),
         (* tagesschau *) Lit(<<"t","a","g","e","s","s","c","h","a","u">>) >>)
    @@
    ("Sports" :>
      << (* sport *) Lit(<<"s","p","o","r","t">>),
         (* bundesliga *) Lit(<<"b","u","n","d","e","s","l","i","g","a">>),
         (* uefa *) Lit(<<"u","e","f","a">>),
         (* espn *) Lit(<<"e","s","p","n">>),
         (* sky sport *) Lit(<<"s","k","y"," ","s","p","o","r","t">>) >>)
    @@
    ("Kids" :>
      << (* kinder *) Lit(<<"k","i","n","d","e","r">>),
         (* kids *) Lit(<<"k","i","d","s">>),
         (* cartoon *) Lit(<<"c","a","r","t","o","o","n">>),
         (* disney *) Lit(<<"d","i","s","n","e","y">>),
         (* junior *) Lit(<<"j","u","n","i","o","r">>) >>)
    @@
    ("Music" :>
      << (* music *) Lit(<<"m","u","s","i","c">>),
         (* musik *) Lit(<<"m","u","s","i","k">>),
         (* mtv *) Lit(<<"m","t","v">>),
         (* viva *) Lit(<<"v","i","v","a">>) >>)
    @@
    ("Documentary" :>
      << (* doku *) Lit(<<"d","o","k","u">>),
         (* documentary *) Lit(<<"d","o","c","u","m","e","n","t","a","r","y">>),
         (* history *) Lit(<<"h","i","s","t","o","r","y">>),
         (* geo *) Lit(<<"g","e","o">>),
         (* planet *) Lit(<<"p","l","a","n","e","t">>),
         (* nat.?geo *) Lit(<<"n","a","t">>) \o <<Opt(AnyChar)>> \o Lit(<<"g","e","o">>) >>)
    @@
    ("Sky" :>
      << (* sky *) Lit(<<"s","k","y">>),
         (* sky sport *) Lit(<<"s","k","y"," ","s","p","o","r","t">>),
         (* sky cinema *) Lit(<<"s","k","y"," ","c","i","n","e","m","a">>),
         (* sky one *) Lit(<<"s","k","y"," ","o","n","e">>),
         (* sky showcase *) Lit(<<"s","k","y"," ","s","h","o","w","c","a","s","e">>) >>)
    @@
    ("RTL" :>
      << (* rtl *) Lit(<<"r","t","l">>),
         (* nitro *) Lit(<<"n","i","t","r","o">>),
         (* vox *) Lit(<<"v","o","x">>),
         (* ntv *) Lit(<<"n","t","v">>),
         (* rtlup *) Lit(<<"r","t","l","u","p">>) >>)
    @@
    ("ProSiebenSat.1" :>
      << (* prosieben *) Lit(<<"p","r","o","s","i","e","b","e","n">>),
         (* sat\\.1 *) Lit(<<"s","a","t","\\">>) \o <<One(AnyChar)>> \o Lit(<<"1">>),
         (* kabel ?1 *) Lit(<<"k","a","b","e","l">>) \o <<Opt({" "})>> \o Lit(<<"1">>),
         (* sixx *) Lit(<<"s","i","x","x">>),
         (* maxx *) Lit(<<"m","a","x","x">>),
         (* puls ?4 *) Lit(<<"p","u","l","s">>) \o <<Opt({" "})>> \o Lit(<<"4">>) >>)
    @@
    ("ARD/ZDF" :>
      << (* ard *) Lit(<<"a","r","d">>),
         (* zdf *) Lit(<<"z","d","f">>),
         (* wdr *) Lit(<<"w","d","r">>),
         (* ndr *) Lit(<<"n","d","r">>),
         (* mdr *) Lit(<<"m","d","r">>),
         (* hr *) Lit(<<"h","r">>),
         (* swr *) Lit(<<"s","w","r">>),
         (* br *) Lit(<<"b","r">>),
         (* phoenix *) Lit(<<"p","h","o","e","n","i","x">>),
         (* tagesschau *) Lit(<<"t","a","g","e","s","s","c","h","a","u">>) >>)
    @@
    ("ServusTV" :>
      << (* servustv *) Lit(<<"s","e","r","v","u","s","t","v">>),
         (* servus tv *) Lit(<<"s","e","r","v","u","s"," ","t","v">>) >>)
    @@
    ("ORF" :>
      << (* orf *) Lit(<<"o","r","f">>),
         (* oe24 *) Lit(<<"o","e","2","4">>),
         (* oe1 *) Lit(<<"o","e","1">>),
         (* oe2 *) Lit(<<"o","e","2">>),
         (* oe3 *) Lit(<<"o","e","3">>) >>)
    @@
    ("BBC" :>
      << (* bbc *) Lit(<<"b","b","c">>),
         (* cbbc *) Lit(<<"c","b","b","c">>),
         (* cbeebies *) Lit(<<"c","b","e","e","b","i","e","s">>),
         (* bbc world *) Lit(<<"b","b","c"," ","w","o","r","l","d">>) >>)
    @@
    ("RAI" :>
      << (* rai *) Lit(<<"r","a","i">>),
         (* italia *) Lit(<<"i","t","a","l","i","a">>),
         (* rai sport *) Lit(<<"r","a","i"," ","s","p","o","r","t">>),
         (* rai movie *) Lit(<<"r","a","i"," ","m","o","v","i","e">>) >>)
    @@
    ("TF1" :>
      << (* tf1 *) Lit(<<"t","f","1">>),
         (* france *) Lit(<<"f","r","a","n","c","e">>),
         (* canal+ *) Lit(<<"c","a","n","a">>) \o <<Plus({"l"})>>,
         (* m6 *) Lit(<<"m","6">>) >>)
    @@
    ("Nederland" :>
      << (* npo *) Lit(<<"n","p","o">>),
         (* rtl ?[45] *) Lit(<<"r","t","l">>) \o <<Opt({" "})>> \o <<One({"4", "5"})>>,
         (* sbs ?6 *) Lit(<<"s","b","s">>) \o <<Opt({" "})>> \o Lit(<<"6">>),
         (* veronica *) Lit(<<"v","e","r","o","n","i","c","a">>),
         (* net ?5 *) Lit(<<"n","e","t">>) \o <<Opt({" "})>> \o Lit(<<"5">>),
         (* ziggo *) Lit(<<"z","i","g","g","o">>) >>)
    @@
    ("Austria" :>
      << (* servus *) Lit(<<"s","e","r","v","u","s">>),
         (* orf *) Lit(<<"o","r","f">>),
         (* atv *) Lit(<<"a","t","v">>),
         (* oe24 *) Lit(<<"o","e","2","4">>),
         (* krone tv *) Lit(<<"k","r","o","n","e"," ","t","v">>),
         (* puls ?4 *) Lit(<<"p","u","l","s">>) \o <<Opt({" "})>> \o Lit(<<"4">>) >>)
    @@
    ("Switzerland" :>
      << (* srf *) Lit(<<"s","r","f">>),
         (* schweiz *) Lit(<<"s","c","h","w","e","i","z">>),
         (* swiss *) Lit(<<"s","w","i","s","s">>),
         (* tele ?z?uri *) Lit(<<"t","e","l","e">>) \o <<Opt({" "})>> \o <<Opt({"z"})>> \o Lit(<<"u","r","i">>),
         (* 3sat ch *) Lit(<<"3","s","a","t"," ","c","h">>) >>)
    @@
    ("Spain" :>
      << (* espan *) Lit(<<"e","s","p","a","n">>),
         (* movistar *) Lit(<<"m","o","v","i","s","t","a","r">>),
         (* antena *) Lit(<<"a","n","t","e","n","a">>),
         (* rtve *) Lit(<<"r","t","v","e">>),
         (* tve *) Lit(<<"t","v","e">>),
         (* vamos *) Lit(<<"v","a","m","o","s">>) >>)
    @@
    ("Italy" :>
      << (* italia *) Lit(<<"i","t","a","l","i","a">>),
         (* mediaset *) Lit(<<"m","e","d","i","a","s","e","t">>),
         (* tivusat *) Lit(<<"t","i","v","u","s","a","t">>),
         (* canale *) Lit(<<"c","a","n","a","l","e">>),
         (* la7 *) Lit(<<"l","a","7">>),
         (* rai *) Lit(<<"r","a","i">>) >>)
    @@
    ("Poland" :>
      << (* polonia *) Lit(<<"p","o","l","o","n","i","a">>),
         (* polsat *) Lit(<<"p","o","l","s","a","t">>),
         (* tvp *) Lit(<<"t","v","p">>),
         (* onet *) Lit(<<"o","n","e","t">>),
         (* canal\+ pol *) Lit(<<"c","a","n","a","l","+"," ","p","o","l">>) >>)
    @@
    ("PyTV" :>
      << (* pytv *) Lit(<<"p","y","t","v">>),
         (* py-tv *) Lit(<<"p","y","-","t","v">>) >>)
    @@
    ("Shopping" :>
      << (* shop *) Lit(<<"s","h","o","p">>),
         (* shopping *) Lit(<<"s","h","o","p","p","i","n","g">>),
         (* kauf *) Lit(<<"k","a","u","f">>),
         (* qvc *) Lit(<<"q","v","c">>),
         (* teleshop *) Lit(<<"t","e","l","e","s","h","o","p">>),
         (* hse *) Lit(<<"h","s","e">>) >>)
    @@
    ("Religion" :>
      << (* kirche *) Lit(<<"k","i","r","c","h","e">>),
         (* church *) Lit(<<"c","h","u","r","c","h">>),
         (* gottes *) Lit(<<"g","o","t","t","e","s">>),
         (* hope *) Lit(<<"h","o","p","e">>),
         (* bibel *) Lit(<<"b","i","b","e","l">>),
         (* faith *) Lit(<<"f","a","i","t","h">>),
         (* islam *) Lit(<<"i","s","l","a","m">>),
         (* evangel *) Lit(<<"e","v","a","n","g","e","l">>) >>)
    @@
    ("Adult" :>
      << (* xxl *) Lit(<<"x","x","l">>),
         (* erotik *) Lit(<<"e","r","o","t","i","k">>),
         (* adult *) Lit(<<"a","d","u","l","t">>),
         (* playboy *) Lit(<<"p","l","a","y","b","o","y">>),
         (* hustler *) Lit(<<"h","u","s","t","l","e","r">>),
         (* dorcel *) Lit(<<"d","o","r","c","e","l">>),
         (* redlight *) Lit(<<"r","e","d","l","i","g","h","t">>) >>)
    @@
    ("International" :>
      << (* france *) Lit(<<"f","r","a","n","c","e">>),
         (* turk *) Lit(<<"t","u","r","k">>),
         (* arab *) Lit(<<"a","r","a","b">>),
         (* ital *) Lit(<<"i","t","a","l">>),
         (* espan *) Lit(<<"e","s","p","a","n">>),
         (* globe *) Lit(<<"g","l","o","b","e">>),
         (* world *) Lit(<<"w","o","r","l","d">>),
         (* bbc *) Lit(<<"b","b","c">>),
         (* rai *) Lit(<<"r","a","i">>),
         (* bein *) Lit(<<"b","e","i","n">>) >>)
    @@
    ("Regional" :>
      << (* regional *) Lit(<<"r","e","g","i","o","n","a","l">>),
         (* bayern *) Lit(<<"b","a","y","e","r","n">>),
         (* berlin *) Lit(<<"b","e","r","l","i","n">>),
         (* hamburg *) Lit(<<"h","a","m","b","u","r","g">>),
         (* ndr *) Lit(<<"n","d","r">>),
         (* mdr *) Lit(<<"m","d","r">>),
         (* rbb *) Lit(<<"r","b","b">>),
         (* swr *) Lit(<<"s","w","r">>),
         (* hr *) Lit(<<"h","r">>),
         (* wdr *) Lit(<<"w","d","r">>) >>)
    @@
    ("UHD/4K" :>
      << (* uhd *) Lit(<<"u","h","d">>),
         (* 4k *) Lit(<<"4","k">>),
         (* ultra *) Lit(<<"u","l","t","r","a">>) >>)
    @@
    ("Resolution - UHD" :> <<>>)
    @@
    ("Resolution - HD" :> <<>>)
    @@
    ("Resolution - SD" :> <<>>)
    @@
    ("Others" :> <<>>)

\* RESOLUTION_REGEX
RESOLUTION_REGEX ==
    << [category |-> "Resolution - UHD",
         regexes |-> << (* \buhd\b *) <<Boundary>> \o Lit(<<"u","h","d">>) \o <<Boundary>>,
                       (* \b4k\b *) <<Boundary>> \o Lit(<<"4","k">>) \o <<Boundary>>,
                       (* ultra\s*hd *) Lit(<<"u","l","t","r","a">>) \o <<Star(Whitespace)>> \o Lit(<<"h","d">>),
                       (* hdr\b *) Lit(<<"h","d","r">>) \o <<Boundary>> >>],
       [category |-> "Resolution - HD",
         regexes |-> << (* (?<!u)hd\+?\b *) <<NotBehind({"u"})>> \o Lit(<<"h","d">>) \o <<Opt({"+"})>> \o <<Boundary>>,
                       (* full\s*hd *) Lit(<<"f","u","l","l">>) \o <<Star(Whitespace)>> \o Lit(<<"h","d">>),
                       (* high\s*definition *) Lit(<<"h","i","g","h">>) \o <<Star(Whitespace)>> \o Lit(<<"d","e","f","i","n","i","t","i","o","n">>) >>],
       [category |-> "Resolution - SD",
         regexes |-> << (* \bsd\b *) <<Boundary>> \o Lit(<<"s","d">>) \o <<Boundary>>,
                       (* standard\s*definition *) Lit(<<"s","t","a","n","d","a","r","d">>) \o <<Star(Whitespace)>> \o Lit(<<"d","e","f","i","n","i","t","i","o","n">>) >>] >>

\* f"{service.name} {service.provider or ''}"
Haystack(service) == service.name \o <<" ">> \o OrEmpty(service.provider)

\* any(pattern.search(text) for pattern in patterns)
AnyPatternMatches(patterns, text) ==
    \E j \in 1..Len(patterns) : Search(patterns[j], text)

\* the loop of _infer_category from the k-th category of CATEGORY_ORDER on
RECURSIVE InferCategoryFrom(_, _)
InferCategoryFrom(haystack, k) ==
    IF k > Len(CATEGORY_ORDER) THEN "Others"
    ELSE IF AnyPatternMatches(CATEGORY_PATTERNS[CATEGORY_ORDER[k]], haystack)
         THEN CATEGORY_ORDER[k]
         ELSE InferCategoryFrom(haystack, k + 1)

infer_category_last_match(service) ==
    LET hits == {k \in 1..Len(CATEGORY_ORDER) :
                    AnyPatternMatches(CATEGORY_PATTERNS[CATEGORY_ORDER[k]], Haystack(service))}
    IN IF hits = {} THEN "Others"
       ELSE CATEGORY_ORDER[CHOOSE k \in hits : \A other \in hits : other <= k]

\* _infer_category
infer_category(service) == InferCategoryFrom(Haystack(service), 1)

\* the loop of _match_resolution_categories from the k-th entry of
\* RESOLUTION_REGEX on: the loop ends at the first UHD or HD match, and
\* "Resolution - SD", the last entry, is added when nothing matched before
RECURSIVE MatchResolutionFrom(_, _)
MatchResolutionFrom(haystack, k) ==
    IF k > Len(RESOLUTION_REGEX) THEN <<>>
    ELSE IF AnyPatternMatches(RESOLUTION_REGEX[k].regexes, haystack)
         THEN << RESOLUTION_REGEX[k].category >>
         ELSE MatchResolutionFrom(haystack, k + 1)

\* _match_resolution_categories for a service parsed from lamedb without a
\* "resolution" field in its provider line
match_resolution_categories(service) == MatchResolutionFrom(StrLower(Haystack(service)), 1)

\* the services of the list at the given positions, in list order
RECURSIVE ServicesAt(_, _)
ServicesAt(list, positions) ==
    IF list = <<>> THEN <<>>
    ELSE LET front == SubSeq(list, 1, Len(list) - 1)
         IN IF Len(list) \in positions
            THEN Append(ServicesAt(front, positions), list[Len(list)])
            ELSE ServicesAt(front, positions)

\* The categories each service of the list is appended to: the primary
\* category, then the resolution categories.
RECURSIVE CategoriesOf(_)
CategoriesOf(list) ==
    IF list = <<>> THEN <<>>
    ELSE << << infer_category(Head(list)) >> \o match_resolution_categories(Head(list)) >>
         \o CategoriesOf(Tail(list))

\* _apply_category_bouquets: "General" for the tv services, one bouquet per
\* non-empty category bucket in CATEGORY_ORDER, "Radio" for the radio
\* services, then the bouquets the profile had.  The pay-tv catalog, the
\* provider catalog and the radio categories are empty (no data file is
\* bundled).  An entry is the reference of its service.
apply_category_bouquets(services, bouquets) ==
    LET services_sorted == SortedServices(services)
        tv == SelectSeq(services_sorted, LAMBDA s : ~IsRadio(s))
        radio == SelectSeq(services_sorted, LAMBDA s : IsRadio(s))
        refs(list) == [i \in 1..Len(list) |-> service_to_ref(list[i])]
        buckets == CategoriesOf(tv)
        members(category) ==
            {i \in 1..Len(tv) : \E j \in 1..Len(buckets[i]) : buckets[i][j] = category}
        bucket(category) == ServicesAt(tv, members(category))
        categories == [k \in 1..Len(CATEGORY_ORDER) |->
                         [name |-> CATEGORY_ORDER[k], entries |-> refs(bucket(CATEGORY_ORDER[k]))]]
    IN (IF tv # <<>> THEN << [name |-> "General", entries |-> refs(tv)] >> ELSE <<>>)
       \o SelectSeq(categories, LAMBDA b : b.entries # <<>>)
       \o (IF radio # <<>> THEN << [name |-> "Radio", entries |-> refs(radio)] >> ELSE <<>>)
       \o bouquets

(***************************************************************************)
(* Category bouquets on their own: a profile of named services goes        *)
(* through _apply_category_bouquets.                                       *)
(***************************************************************************)
MaxClassifyServices == 2

Namespace1 == <<"0","0","0","0","0","0","0","1">>
Hex0001 == <<"0","0","0","1">>

\* lamedb service entries on transponder 00000001:0001:0001 with distinct
\* service ids: names and providers that match several categories, one
\* category, a resolution pattern, or nothing; the sixth is a radio service
ClassifyServices ==
    << parse_service_entry(1, Namespace1, Hex0001, Hex0001, 1,
                           PyStr(<<"S","k","y">>), <<"S","k","y"," ","N","e","w","s">>),
       parse_service_entry(2, Namespace1, Hex0001, Hex0001, 25, PyNone, <<"Z","D","F"," ","H","D">>),
       parse_service_entry(3, Namespace1, Hex0001, Hex0001, 1, Vendor, <<"A","B">>),
       parse_service_entry(4, Namespace1, Hex0001, Hex0001, 31, PyNone, <<"R","T","L"," ","U","H","D">>),
       parse_service_entry(5, Namespace1, Hex0001, Hex0001, 1, PyNone, <<"C","a","n","a","l"," ","9">>),
       parse_service_entry(6, Namespace1, Hex0001, Hex0001, 2, PyNone,
                           <<"R","a","d","i","o"," ","N","e","w","s">>),
       parse_service_entry(7, Namespace1, Hex0001, Hex0001, 1, PyNone, <<"S","a","t",".","1">>),
       parse_service_entry(8, Namespace1, Hex0001, Hex0001, 1, PyNone, <<>>),
       parse_service_entry(9, Namespace1, Hex0001, Hex0001, 1, PyNone, <<"K","a","b","e","l","1">>) >>

ClassifyServiceIds == 1..Len(ClassifyServices)

\* a Userbouquet of the input profile
LegacyBouquet == [name |-> "Favourites", entries |-> << service_to_ref(ClassifyServices[3]) >>]

ClassifyInit ==
    /\ kServices \in {q \in SeqsUpTo(ClassifyServiceIds, MaxClassifyServices) :
                         \A i, j \in 1..Len(q) : i # j => q[i] # q[j]}
    /\ kBouquets \in {<<>>, << LegacyBouquet >>}
    /\ kOut = <<>>
    /\ kPhase = "loaded"

ClassifyIdle ==
    /\ kServices = <<>>
    /\ kBouquets = <<>>
    /\ kOut = <<>>
    /\ kPhase = "idle"

\* _apply_category_bouquets(profile, name_map)
ClassifyApplyCategoryBouquets ==
    /\ kPhase = "loaded"
    /\ kOut' = apply_category_bouquets([i \in 1..Len(kServices) |-> ClassifyServices[kServices[i]]],
                                       kBouquets)
    /\ kPhase' = "classified"
    /\ UNCHANGED <<kServices, kBouquets>>
    /\ UNCHANGED otherThanClassify

ClassifyNext == ClassifyApplyCategoryBouquets

\* The categories one of whose patterns matches "{name} {provider}".
ClaimMatchingCategories(service) ==
    {k \in 1..Len(CATEGORY_ORDER) :
        AnyPatternMatches(CATEGORY_PATTERNS[CATEGORY_ORDER[k]], Haystack(service))}

\* The first of them in catalog order, or "Others".
ClaimCategory(service) ==
    LET hits == ClaimMatchingCategories(service)
    IN IF hits = {} THEN "Others"
       ELSE CATEGORY_ORDER[CHOOSE k \in hits : \A other \in hits : k <= other]

ResolutionCategories == {"Resolution - UHD", "Resolution - HD", "Resolution - SD"}

\* The new bouquets (those before the profile's own) holding the service.
ClaimBouquetsOf(service) ==
    {kOut[i].name : i \in {i \in 1..(Len(kOut) - Len(kBouquets)) :
                              \E e \in 1..Len(kOut[i].entries) :
                                  kOut[i].entries[e] = service_to_ref(service)}}

\* C11: every non-radio service is classified into exactly one category, the
\* first category in catalog order with a pattern matching "{name}
\* {provider}" or else "Others", and after _apply_category_bouquets it has
\* an entry in that category's bouquet (besides "General" and a resolution
\* bouquet, in no other category's bouquet).
C11_ClassificationTotal ==
    kPhase = "classified" =>
        \A i \in 1..Len(kServices) :
            LET service == ClassifyServices[kServices[i]]
            IN ~IsRadio(service) =>
                  /\ ClaimCategory(service) \in ClaimBouquetsOf(service)
                  /\ ClaimBouquetsOf(service) \ ({"General"} \cup ResolutionCategories)
                        = {ClaimCategory(service)}

\* A service matching two categories and a service matching none have both
\* been classified.
C11_Witness ==
    /\ kPhase = "classified"
    /\ \E i, j \in 1..Len(kServices) :
          /\ Cardinality(ClaimMatchingCategories(ClassifyServices[kServices[i]])) > 1
          /\ ClaimMatchingCategories(ClassifyServices[kServices[j]]) = {}
          /\ ~IsRadio(ClassifyServices[kServices[j]])
          /\ "Others" \in ClaimBouquetsOf(ClassifyServices[kServices[j]])

\* an identity of original network, transport stream and namespace only
validate_service_identity_transponder_only(service) ==
    << service.original_network_id, service.transport_stream_id, service.namespace >>

\* validate._service_identity
validate_service_identity(service) ==
    << service.original_network_id, service.transport_stream_id,
       service.service_id, service.namespace, service.service_type >>

\* validate._detect_duplicates: one record per service whose identity was seen
detect_duplicates(services) ==
    SelectSeq([i \in 1..Len(services) |->
                 [index |-> i, identity |-> validate_service_identity(services[i])]],
              LAMBDA r : \E j \in 1..(r.index - 1) :
                            validate_service_identity(services[j]) = r.identity)

\* validate._find_unresolved_transponders
find_unresolved_transponders(services, transponders) ==
    LET keys == {t.key : t \in transponders}
        flagged == SelectSeq(services, LAMBDA s : s.transponder_key \notin keys)
    IN [i \in 1..Len(flagged) |-> [kind |-> "unresolved", service |-> flagged[i].key]]

\* profile.transponders.get(service.transponder_key).delivery, "none" if absent
DeliveryOf(service, transponders) ==
    IF \E t \in transponders : t.key = service.transponder_key
    THEN (CHOOSE t \in transponders : t.key = service.transponder_key).delivery
    ELSE "none"

\* validate._build_stats
build_stats(services, transponders, bouquets) ==
    LET count(delivery) ==
            Cardinality({i \in 1..Len(services) : DeliveryOf(services[i], transponders) = delivery})
    IN [total_services |-> Len(services),
        sat_services |-> count("sat"),
        cable_services |-> count("cable"),
        terrestrial_services |-> count("terrestrial"),
        bouquet_count |-> Len(bouquets)]

\* validate.validate_profile
validate_profile(services, transponders, bouquets) ==
    LET duplicates == detect_duplicates(services)
    IN [warnings |->
            (IF services = <<>> THEN << [kind |-> "no-services", service |-> <<>>] >> ELSE <<>>)
            \o (IF transponders = {} THEN << [kind |-> "no-transponders", service |-> <<>>] >> ELSE <<>>)
            \o find_unresolved_transponders(services, transponders)
            \o (IF duplicates # <<>> THEN << [kind |-> "duplicates", service |-> <<>>] >> ELSE <<>>),
        stats |-> build_stats(services, transponders, bouquets),
        duplicates |-> duplicates]

\* validate.assert_minimums: TRUE when it raises ValidationError
assert_minimums_raises(stats, thresholds, active) ==
    \/ thresholds.sat > 0 /\ "sat" \in active /\ stats.sat_services < thresholds.sat
    \/ thresholds.cable > 0 /\ "cable" \in active /\ stats.cable_services < thresholds.cable
    \/ thresholds.terrestrial > 0 /\ "terrestrial" \in active
       /\ stats.terrestrial_services < thresholds.terrestrial

\* mapping of _filter_services, for the items S, C and T of include_types
DeliveryOfType(item) ==
    CASE item = "S" -> "sat" [] item = "C" -> "cable" [] item = "T" -> "terrestrial"

\* io_neutrino._filter_services: the services of the profile whose
\* transponder is known and, if include_types is not empty, has a delivery
\* named by include_types
filter_services(services, transponders, options) ==
    LET delivery_filter == {DeliveryOfType(item) : item \in options.include_types}
    IN SelectSeq(services, LAMBDA s :
           /\ DeliveryOf(s, transponders) # "none"
           /\ delivery_filter # {} => DeliveryOf(s, transponders) \in delivery_filter)

HdTypes == {17, 22, 25, 26, 31, 32, 33, 34, 134}
UhdTypes == {31, 32, 33, 34, 135}

\* _entries: the references of the services sorted by (name.lower(),
\* service_id), each reference once
RECURSIVE UniqueRefs(_)
UniqueRefs(refs) ==
    IF refs = <<>> THEN <<>>
    ELSE LET front == UniqueRefs(SubSeq(refs, 1, Len(refs) - 1))
             last == refs[Len(refs)]
         IN IF \E i \in 1..Len(front) : front[i] = last THEN front ELSE Append(front, last)

\* io_neutrino._generate_auto_bouquets for services without CA ids whose
\* name and provider hold no public-service keyword and whose provider, if
\* any, is the one provider of the model; the bouquets sorted by name.lower()
generate_auto_bouquets(services) ==
    LET tv == SelectSeq(services, LAMBDA s : ~IsRadio(s))
        radio == SelectSeq(services, LAMBDA s : IsRadio(s))
        hd == SelectSeq(tv, LAMBDA s : s.service_type \in HdTypes)
        uhd == SelectSeq(tv, LAMBDA s : s.service_type \in UhdTypes)
        withProvider(list) == SelectSeq(list, LAMBDA s : ~Falsy(s.provider))
        entries(list) == LET ordered == SortedServices(list)
                         IN UniqueRefs([i \in 1..Len(ordered) |-> service_to_ref(ordered[i])])
        bouquet(name, list) == IF list # <<>> THEN << [name |-> name, entries |-> entries(list)] >>
                               ELSE <<>>
    IN bouquet("Radio - Free", radio) \o bouquet("Radio - Provider: V", withProvider(radio))
       \o bouquet("TV - Free", tv) \o bouquet("TV - Free HD", hd)
       \o bouquet("TV - Free UHD", uhd)
       \o bouquet("TV - Private", tv) \o bouquet("TV - Provider: V", withProvider(tv))

\* io_neutrino._filter_bouquets with filter_bouquets unset
filter_bouquets(bouquets, services) ==
    LET allowed_keys == {services[i].key : i \in 1..Len(services)}
        kept == [b \in 1..Len(bouquets) |->
                   [name |-> bouquets[b].name,
                    entries |-> SelectSeq(bouquets[b].entries,
                                  LAMBDA e : neutrino_service_ref_to_key(e) \in allowed_keys)]]
        filtered == SelectSeq(kept, LAMBDA b : b.entries # <<>>)
    IN IF filtered = <<>> THEN generate_auto_bouquets(services) ELSE filtered

\* What _write_group leaves in a directory: the number of <service> nodes of
\* services.xml and the keys of their services in file order, the number of
\* <bouquet> nodes of bouquets.xml, BUILDINFO.json.
write_group(services, bouquets) ==
    [services_xml |-> Len(services),
     services |-> [i \in 1..Len(services) |-> services[i].key],
     bouquets_xml |-> Len(bouquets), buildinfo |-> TRUE]

\* The loop over the groups in write_outputs: the delivery categories whose
\* directories are written (a category is skipped when its include flag is
\* false)
written_groups(selected, transponders, options) ==
    {d \in {DeliveryOf(selected[i], transponders) : i \in 1..Len(selected)} :
        /\ d = "sat" => options.include_sat
        /\ d = "cable" => options.include_cable
        /\ d = "terrestrial" => options.include_terrestrial}

\* write_outputs with the api_version check moved behind the writing
write_outputs_version_check_last(services, transponders, bouquets, options) ==
    LET selected == filter_services(services, transponders, options)
        master == SortedServices(selected)
    IN [raised |-> options.api_version \notin {3, 4},
        top |-> << write_group(master, filter_bouquets(bouquets, selected)) >>,
        groups |-> written_groups(selected, transponders, options)]

\* io_neutrino.write_outputs: the error raised before anything is written,
\* or the top-level files and the per-delivery group directories.
write_outputs(services, transponders, bouquets, options) ==
    IF options.api_version \notin {3, 4}
    THEN [raised |-> TRUE, top |-> <<>>, groups |-> {}]
    ELSE LET selected == filter_services(services, transponders, options)
             master == SortedServices(selected)
         IN [raised |-> FALSE,
             top |-> << write_group(master, filter_bouquets(bouquets, selected)) >>,
             groups |-> written_groups(selected, transponders, options)]

\* The attributes of normalizer.ScanfileBundle
EmptyScanfileBundle == [cable |-> <<>>, terrestrial |-> <<>>, provenance |-> <<>>]

\* groups.setdefault(name, []).append(entry) on a dict kept in insertion
\* order as a sequence of [name, entries]
GroupAppend(groups, name, entry) ==
    IF \E i \in 1..Len(groups) : groups[i].name = name
    THEN [i \in 1..Len(groups) |->
            IF groups[i].name = name
            THEN [groups[i] EXCEPT !.entries = Append(@, entry)] ELSE groups[i]]
    ELSE Append(groups, [name |-> name, entries |-> << entry >>])

\* one iteration of the first loop of _group_entries; provenance keeps the
\* kind and the key under which the entry is recorded
GroupStep(acc, entry) ==
    LET delivery == StrUpper(OrEmpty(entry.delivery_system))
        unknown == <<"U","n","k","n","o","w","n">>
    IN IF IsCableDelivery(delivery)
       THEN LET provider == IF Falsy(entry.provider) THEN unknown ELSE entry.provider.v
            IN [acc EXCEPT !.cable = GroupAppend(@, provider, entry),
                           !.provenance = Append(@, [kind |-> "cable", key |-> provider])]
       ELSE IF IsTerrestrialDelivery(delivery)
       THEN LET region == IF Falsy(entry.region) THEN unknown ELSE entry.region.v
            IN [acc EXCEPT !.terrestrial = GroupAppend(@, region, entry),
                           !.provenance = Append(@, [kind |-> "terrestrial", key |-> region])]
       ELSE LET key == IF ~Falsy(entry.provider) THEN entry.provider.v
                       ELSE IF ~Falsy(entry.region) THEN entry.region.v ELSE <<"u","n","k","n","o","w","n">>
            IN [acc EXCEPT !.provenance = Append(@, [kind |-> "ignored", key |-> key])]

RECURSIVE GroupLoop(_, _)
GroupLoop(acc, entries) ==
    IF entries = <<>> THEN acc ELSE GroupLoop(GroupStep(acc, Head(entries)), Tail(entries))

\* _cable_sort_key: (frequency_hz or 0, symbol_rate or 0, modulation or "")
CableOrder(a, b) ==
    IF a.frequency_hz # b.frequency_hz THEN a.frequency_hz < b.frequency_hz
    ELSE IF OrZero(a.symbol_rate) # OrZero(b.symbol_rate)
         THEN OrZero(a.symbol_rate) < OrZero(b.symbol_rate)
    ELSE StrLess(OrEmpty(a.modulation), OrEmpty(b.modulation))

\* _terrestrial_sort_key: (frequency_hz or 0, bandwidth_hz or 0, modulation or "")
TerrestrialOrder(a, b) ==
    IF a.frequency_hz # b.frequency_hz THEN a.frequency_hz < b.frequency_hz
    ELSE IF OrZero(a.bandwidth_hz) # OrZero(b.bandwidth_hz)
         THEN OrZero(a.bandwidth_hz) < OrZero(b.bandwidth_hz)
    ELSE StrLess(OrEmpty(a.modulation), OrEmpty(b.modulation))

\* _group_entries
group_entries(entries) ==
    LET grouped == GroupLoop(EmptyScanfileBundle, entries)
    IN [cable |-> [i \in 1..Len(grouped.cable) |->
                     [grouped.cable[i] EXCEPT !.entries = SortedBy(@, CableOrder)]],
        terrestrial |-> [i \in 1..Len(grouped.terrestrial) |->
                     [grouped.terrestrial[i] EXCEPT !.entries = SortedBy(@, TerrestrialOrder)]],
        provenance |-> grouped.provenance]

\* normalize_scan_entries without provider or region filter and without
\* expected providers or regions: the bundle, or the TypeError of the
\* deduplication
normalize_scan_entries(entries) ==
    LET deduped == deduplicate_scan_entries(entries)
    IN IF deduped.raised THEN [raised |-> TRUE, bundle |-> EmptyScanfileBundle]
       ELSE [raised |-> FALSE, bundle |-> group_entries(deduped.entries)]

\* the names of the groups of a table, sorted(table.keys())
GroupNameOrder(a, b) == StrLess(a.name, b.name)

\* the <transponder> element of a cable entry
CableTransponder(entry) ==
    [frequency |-> entry.frequency_hz \div 1000,
     symbol_rate |-> OrZero(entry.symbol_rate),
     fec_inner |-> fec_to_code(entry.fec),
     modulation |-> modulation_to_code(entry.modulation, "cable")]

\* the <transponder> element of a terrestrial entry without DVB-T extras
TerrestrialTransponder(entry) ==
    [frequency |-> entry.frequency_hz \div 1000,
     bandwidth |-> bandwidth_to_code(entry.bandwidth_hz),
     constellation |-> modulation_to_code(entry.modulation, "terrestrial"),
     code_rate_HP |-> fec_to_code(entry.fec)]

\* the <transponder> element of a satellite entry
SatelliteTransponder(entry) ==
    [frequency |-> entry.frequency_hz,
     symbol_rate |-> OrZero(entry.symbol_rate),
     polarization |-> polarization_to_code(entry.polarization),
     fec_inner |-> fec_to_code(entry.fec),
     modulation |-> modulation_to_code(entry.modulation, "sat")]

\* _write_satellites_file / _write_cables_file / _write_terrestrial_file: the
\* file with its root element and one child element per non-empty group,
\* the groups sorted by name
ScanFile(file_name, root, tag, table, Element(_)) ==
    LET groups == SortedBy(SelectSeq(table, LAMBDA g : g.entries # <<>>), GroupNameOrder)
    IN [name |-> file_name, root |-> root,
        groups |-> [i \in 1..Len(groups) |->
                      [tag |-> tag, name |-> groups[i].name,
                       transponders |-> [j \in 1..Len(groups[i].entries) |->
                                           Element(groups[i].entries[j])]]]]

\* _enforce_thresholds: TRUE when it raises ScanfileError
enforce_thresholds_raises(bundle, options) ==
    /\ options.strict_scanfiles
    /\ \/ \E i \in 1..Len(bundle.satellite) :
             Len(bundle.satellite[i].entries) < options.min_scanfile_entries_cable
       \/ \E i \in 1..Len(bundle.cable) :
             Len(bundle.cable[i].entries) < options.min_scanfile_entries_cable
       \/ \E i \in 1..Len(bundle.terrestrial) :
             Len(bundle.terrestrial[i].entries) < options.min_scanfile_entries_terrestrial

\* bundle.counts().get(kind, {})
GroupCounts(table) == [i \in 1..Len(table) |-> [name |-> table[i].name, count |-> Len(table[i].entries)]]

NoScanReport ==
    [cable_counts |-> <<>>, terrestrial_counts |-> <<>>, satellite_counts |-> <<>>,
     output_paths |-> {}, warnings |-> <<>>]

\* one of the three blocks of write_scanfiles: write the file of a
\* non-empty table, else warn and, in strict mode, raise ScanfileError
WriteTable(run, table, output, file, warning, options) ==
    IF run.error # "none" THEN run
    ELSE IF table # <<>>
    THEN [run EXCEPT !.files = @ \cup {file}, !.report.output_paths = @ \cup {output}]
    ELSE [run EXCEPT !.report.warnings = Append(@, warning),
                     !.error = IF options.strict_scanfiles THEN "ScanfileError" ELSE "none"]

\* writer.write_scanfiles: the exception raised ("none" when it returns),
\* the report and the files in the target directory.  bundle.satellite is
\* an attribute ScanfileBundle does not have.
write_scanfiles(bundle, options) ==
    LET report == [NoScanReport EXCEPT !.cable_counts = GroupCounts(bundle.cable),
                                       !.terrestrial_counts = GroupCounts(bundle.terrestrial)]
        start == [error |-> "none", report |-> report, files |-> {}]
    IN IF ~options.emit_scanfiles
       THEN [start EXCEPT !.report.warnings = << "scanfile emission disabled by CLI option" >>]
       ELSE IF "satellite" \notin DOMAIN bundle THEN [start EXCEPT !.error = "AttributeError"]
       ELSE LET sat == WriteTable(start, bundle.satellite, "satellites",
                          ScanFile("satellites.xml", "satellites", "sat", bundle.satellite,
                                   SatelliteTransponder),
                          "no satellites available for satellites.xml", options)
                cab == WriteTable(sat, bundle.cable, "cables",
                          ScanFile("cables.xml", "cables", "cable", bundle.cable,
                                   CableTransponder),
                          "no cable providers available for cables.xml", options)
                ter == WriteTable(cab, bundle.terrestrial, "terrestrial",
                          ScanFile("terrestrial.xml", "locations", "terrestrial",
                                   bundle.terrestrial, TerrestrialTransponder),
                          "no terrestrial regions available for terrestrial.xml", options)
            IN IF ter.error = "none" /\ enforce_thresholds_raises(bundle, options)
               THEN [ter EXCEPT !.error = "ScanfileError"]
               ELSE ter

\* _parse_cable_scanfile / _parse_terrestrial_scanfile: TRUE when the parser
\* raises ValidationError (wrong root element, a group element without
\* name, or no group element of the expected tag with transponders)
ScanfileParserRaises(file, root, tag) ==
    LET groups == SelectSeq(file.groups, LAMBDA g : g.tag = tag)
    IN \/ file.root # root
       \/ \E i \in 1..Len(groups) : StrStrip(groups[i].name) = <<>>
       \/ \A i \in 1..Len(groups) : groups[i].transponders = <<>>

\* validate.validate_scanfiles on the files of a directory: "ok" or
\* "ValidationError".  It reads cable.xml and terrestrial.xml and skips a
\* file that does not exist; the JSON schemas are not part of the sources,
\* so only the parsers are modelled.
validate_scanfiles(files) ==
    IF \E f \in files :
          \/ (f.name = "cable.xml" /\ ScanfileParserRaises(f, "cable", "provider"))
          \/ (f.name = "terrestrial.xml" /\ ScanfileParserRaises(f, "terrestrial", "region"))
    THEN "ValidationError" ELSE "ok"

\* validate.assert_output_schema on the top-level directory: "ok" or the
\* check that raised ValidationError (no cable.xml / terrestrial.xml exists)
assert_output_schema(top, stats) ==
    IF top = <<>> THEN "missing services.xml"
    ELSE IF top[1].services_xml # stats.total_services THEN "services.xml count"
    ELSE IF top[1].bouquets_xml = 0 THEN "bouquets.xml empty"
    ELSE "ok"

\* if warnings: ... if options.strict: raise (fail_on_warn ignored)
warnings_escalate_strict_only(warnings, options) ==
    warnings # <<>> /\ options.strict

\* if warnings: ... if options.strict or options.fail_on_warn: raise
warnings_escalate(warnings, options) ==
    warnings # <<>> /\ (options.strict \/ options.fail_on_warn)

MaxConvertServices == 2

SatKey == <<"0","0","0","0","0","0","0","1",":","0","0","0","1",":","0","0","0","1">>
CableKey == <<"0","0","0","0","0","0","0","a",":","0","0","0","1",":","0","0","0","1">>

\* lamedb transponders: key line (lower-cased) and delivery
ConvertTransponders ==
    { [key |-> SatKey, delivery |-> "sat"],
      [key |-> CableKey, delivery |-> "cable"] }

\* lamedb service entries: a tv and a radio service on the satellite
\* transponder, the first one again with its transponder spelt 1:1:1 (same
\* identity, no such transponder), and an HD service on the cable one.
ConvertServices ==
    << parse_service_entry(1, <<"0","0","0","0","0","0","0","1">>, <<"0","0","0","1">>,
                           <<"0","0","0","1">>, 1, Vendor, <<"A","B">>),
       parse_service_entry(2, <<"0","0","0","0","0","0","0","1">>, <<"0","0","0","1">>,
                           <<"0","0","0","1">>, 2, PyNone, <<"A">>),
       parse_service_entry(1, <<"1">>, <<"1">>, <<"1">>, 1, Vendor, <<"A","B">>),
       parse_service_entry(1, <<"0","0","0","0","0","0","0","A">>, <<"0","0","0","1">>,
                           <<"0","0","0","1">>, 25, PyNone, <<>>) >>

ConvertServiceIds == 1..Len(ConvertServices)

\* The id of a service of ConvertServices (its key is unique, as in a dict).
ConvertServiceId(service) == CHOOSE id \in ConvertServiceIds : ConvertServices[id].key = service.key

\* profile.services as a sequence of services (vProfile holds the ids)
ConvertServicesOf(ids) == [i \in 1..Len(ids) |-> ConvertServices[ids[i]]]

ConvertInputs ==
    [transponders : SUBSET ConvertTransponders,
     services : {q \in SeqsUpTo(ConvertServiceIds, MaxConvertServices) :
                    \A i, j \in 1..Len(q) : i # j => q[i] # q[j]}]

\* min_services_sat / _cable / _terrestrial: the defaults of run_convert, and 1
ThresholdInputs ==
    { [sat |-> 50, cable |-> 20, terrestrial |-> 20],
      [sat |-> 1, cable |-> 1, terrestrial |-> 1] }

ConvertOptions ==
    [strict : BOOLEAN, fail_on_warn : BOOLEAN, abort_on_empty : BOOLEAN,
     emit_scanfiles : BOOLEAN, strict_scanfiles : BOOLEAN,
     api_version : {4, 5}, thresholds : ThresholdInputs,
     include_stale : {FALSE}, stale_after_days : {120},
     include_types : {{}}, include_sat : {TRUE}, include_cable : {TRUE},
     include_terrestrial : {TRUE}]

\* int(datetime.now(timezone.utc).timestamp()) during the run
ConvertNow == 1000

NoReport == [warnings |-> <<>>,
             stats |-> [total_services |-> 0, sat_services |-> 0, cable_services |-> 0,
                        terrestrial_services |-> 0, bouquet_count |-> 0],
             duplicates |-> <<>>]

NoOutput == [top |-> <<>>, groups |-> {}, qa_report |-> FALSE]

\* The profile as load_profile returns it (no userbouquet files).
LoadedProfile(input) ==
    [services |-> input.services, bouquets |-> <<>>, removed |-> 0,
     last_seen |-> "absent", stale |-> "absent"]

ConvertInit ==
    /\ vIn \in ConvertInputs
    /\ vOpts \in ConvertOptions
    /\ vPc = "loaded"
    /\ vProfile = LoadedProfile(vIn)
    /\ vReport = NoReport
    /\ vOut = NoOutput
    /\ vError = "none"

ConvertIdle ==
    /\ vIn = [transponders |-> {}, services |-> <<>>]
    /\ vOpts = [strict |-> FALSE, fail_on_warn |-> FALSE, abort_on_empty |-> FALSE,
                emit_scanfiles |-> TRUE, strict_scanfiles |-> FALSE, api_version |-> 4,
                thresholds |-> [sat |-> 50, cable |-> 20, terrestrial |-> 20],
                include_stale |-> FALSE, stale_after_days |-> 120,
                include_types |-> {}, include_sat |-> TRUE, include_cable |-> TRUE,
                include_terrestrial |-> TRUE]
    /\ vPc = "idle"
    /\ vProfile = LoadedProfile(vIn)
    /\ vReport = NoReport
    /\ vOut = NoOutput
    /\ vError = "none"

\* raise: the exception leaves convert
Raise(error) ==
    /\ vPc' = "raised"
    /\ vError' = error

\* _ensure_fresh_profile(profile, options, provenance)
ConvertEnsureFresh ==
    /\ vPc = "loaded"
    /\ LET gate == ensure_fresh_profile(LoadedProfileMeta.metadata, vOpts,
                                        LoadedProfileMeta.provenance)
       IN /\ vProfile' = [vProfile EXCEPT !.last_seen = gate.last_seen, !.stale = gate.stale]
          /\ IF gate.raised THEN Raise("ConversionError: stale")
             ELSE vPc' = "fresh" /\ vError' = vError
    /\ UNCHANGED <<vIn, vOpts, vReport, vOut>>
    /\ UNCHANGED otherThanConvert

\* dedup_records = _deduplicate_profile(profile)
ConvertDeduplicate ==
    /\ vPc = "fresh"
    /\ LET result == deduplicate_profile(ConvertServicesOf(vProfile.services), vProfile.bouquets,
                                         DefaultSourcePriority, ConvertNow)
       IN vProfile' = [vProfile EXCEPT
                         !.services = [i \in 1..Len(result.services) |-> ConvertServiceId(result.services[i])],
                         !.bouquets = result.bouquets,
                         !.removed = Len(result.removed)]
    /\ vPc' = "deduplicated"
    /\ UNCHANGED <<vIn, vOpts, vReport, vOut, vError>>
    /\ UNCHANGED otherThanConvert

\* _apply_category_bouquets(profile, name_map)
ConvertApplyCategoryBouquets ==
    /\ vPc = "deduplicated"
    /\ vProfile' = [vProfile EXCEPT
                      !.bouquets = apply_category_bouquets(ConvertServicesOf(vProfile.services), @)]
    /\ vPc' = "categorised"
    /\ UNCHANGED <<vIn, vOpts, vReport, vOut, vError>>
    /\ UNCHANGED otherThanConvert

\* report = validate.validate_profile(profile)
ConvertValidateProfile ==
    /\ vPc = "categorised"
    /\ vReport' = validate_profile(ConvertServicesOf(vProfile.services), vIn.transponders,
                                   vProfile.bouquets)
    /\ vPc' = "validated"
    /\ UNCHANGED <<vIn, vOpts, vProfile, vOut, vError>>
    /\ UNCHANGED otherThanConvert

\* if warnings: if options.strict or options.fail_on_warn: raise ConversionError
ConvertEscalateWarnings ==
    /\ vPc = "validated"
    /\ IF warnings_escalate(vReport.warnings, vOpts)
       THEN Raise("ConversionError: warnings")
       ELSE vPc' = "accepted" /\ vError' = vError
    /\ UNCHANGED <<vIn, vOpts, vProfile, vReport, vOut>>
    /\ UNCHANGED otherThanConvert

\* validate.assert_no_dupes(report.duplicates)
ConvertAssertNoDupes ==
    /\ vPc = "accepted"
    /\ IF vReport.duplicates # <<>>
       THEN Raise("ValidationError: duplicates")
       ELSE vPc' = "unique" /\ vError' = vError
    /\ UNCHANGED <<vIn, vOpts, vProfile, vReport, vOut>>
    /\ UNCHANGED otherThanConvert

\* if options.abort_on_empty: validate.assert_minimums(...)
ConvertAssertMinimums ==
    /\ vPc = "unique"
    /\ IF /\ vOpts.abort_on_empty
          /\ assert_minimums_raises(vReport.stats, vOpts.thresholds,
                                    {t.delivery : t \in vIn.transponders})
       THEN Raise("ValidationError: minimums")
       ELSE vPc' = "ready" /\ vError' = vError
    /\ UNCHANGED <<vIn, vOpts, vProfile, vReport, vOut>>
    /\ UNCHANGED otherThanConvert

\* io_neutrino.write_outputs(profile, output_path, options, name_map)
ConvertWriteOutputs ==
    /\ vPc = "ready"
    /\ LET written == write_outputs(ConvertServicesOf(vProfile.services), vIn.transponders,
                                    vProfile.bouquets, vOpts)
       IN /\ vOut' = [vOut EXCEPT !.top = written.top, !.groups = written.groups]
          /\ IF written.raised THEN Raise("ValueError: api_version")
             ELSE vPc' = "written" /\ vError' = vError
    /\ UNCHANGED <<vIn, vOpts, vProfile, vReport>>
    /\ UNCHANGED otherThanConvert

\* if options.emit_scanfiles: ... write_scanfiles(...) (no scan directory
\* next to the input, so the bundle is empty); only ScanfileError is caught
ConvertEmitScanfiles ==
    /\ vPc = "written"
    /\ LET outcome == write_scanfiles(EmptyScanfileBundle, vOpts)
       IN IF outcome.error = "AttributeError" THEN Raise("AttributeError: satellite")
          ELSE IF outcome.error = "ScanfileError" /\ vOpts.strict_scanfiles
          THEN Raise("ConversionError: scanfiles")
          ELSE vPc' = "scanned" /\ vError' = vError
    /\ UNCHANGED <<vIn, vOpts, vProfile, vReport, vOut>>
    /\ UNCHANGED otherThanConvert

\* validate.assert_output_schema(output_path, report.stats)
ConvertAssertOutputSchema ==
    /\ vPc = "scanned"
    /\ LET verdict == assert_output_schema(vOut.top, vReport.stats)
       IN IF verdict # "ok"
          THEN Raise(IF verdict = "services.xml count"
                     THEN "ValidationError: services.xml count"
                     ELSE IF verdict = "bouquets.xml empty"
                     THEN "ValidationError: bouquets.xml empty"
                     ELSE "ValidationError: missing services.xml")
          ELSE vPc' = "verified" /\ vError' = vError
    /\ UNCHANGED <<vIn, vOpts, vProfile, vReport, vOut>>
    /\ UNCHANGED otherThanConvert

\* _write_qa_report(...); return ConversionResult(...)
ConvertReturn ==
    /\ vPc = "verified"
    /\ vOut' = [vOut EXCEPT !.qa_report = TRUE]
    /\ vPc' = "returned"
    /\ UNCHANGED <<vIn, vOpts, vProfile, vReport, vError>>
    /\ UNCHANGED otherThanConvert

ConvertNext ==
    \/ ConvertEnsureFresh
    \/ ConvertDeduplicate
    \/ ConvertApplyCategoryBouquets
    \/ ConvertValidateProfile
    \/ ConvertEscalateWarnings
    \/ ConvertAssertNoDupes
    \/ ConvertAssertMinimums
    \/ ConvertWriteOutputs
    \/ ConvertEmitScanfiles
    \/ ConvertAssertOutputSchema
    \/ ConvertReturn

\* validate_profile has run in this call of convert
Validated ==
    \/ vPc \in {"validated", "accepted", "unique", "ready", "written", "scanned",
                "verified", "returned"}
    \/ vPc = "raised" /\ vError # "ConversionError: stale"

\* services.xml, bouquets.xml and BUILDINFO.json exist in the output directory
TopLevelWritten == vOut.top # <<>>

\* C5: with strict or fail_on_warn enabled, a run whose validate_profile
\* produced at least one warning raises ConversionError at the escalation,
\* before write_outputs: it never gets past the escalation and no output
\* file exists.
C5_WarningsAbortBeforeWrite ==
    ((vOpts.strict \/ vOpts.fail_on_warn) /\ Validated /\ vReport.warnings # <<>>) =>
        /\ vPc \in {"validated", "raised"}
        /\ vPc = "raised" => vError = "ConversionError: warnings"
        /\ vOut = NoOutput

C5_Witness ==
    /\ vPc = "raised"
    /\ vError = "ConversionError: warnings"
    /\ vOpts.fail_on_warn /\ ~vOpts.strict
    /\ \E i \in 1..Len(vReport.warnings) : vReport.warnings[i].kind = "unresolved"
    /\ vOut = NoOutput

PreWriteErrors ==
    {"ConversionError: stale", "ConversionError: warnings", "ValidationError: duplicates",
     "ValidationError: minimums", "ValueError: api_version"}

PostWriteErrors ==
    {"AttributeError: satellite", "ConversionError: scanfiles",
     "ValidationError: services.xml count", "ValidationError: bouquets.xml empty",
     "ValidationError: missing services.xml"}

\* C6 (as stated): convert either returns after the full output tree is
\* written or raises before any top-level file exists; it never raises after
\* services.xml, bouquets.xml and BUILDINFO.json were written.
C6_AllOrNothing ==
    /\ vPc = "returned" => (TopLevelWritten /\ vOut.qa_report)
    /\ vPc = "raised" => ~TopLevelWritten

\* C6 (amended): convert returns only after the top-level files and the QA
\* report are written and post-write validation passed.  A raise of the
\* staleness gate, the warning escalation, assert_no_dupes, assert_minimums or
\* the api_version check happens before any output file exists; a raise of
\* the scanfile stage or of post-write validation happens after the
\* top-level files were written, and they stay in place.
C6_RaisesBeforeOrAfterWrite ==
    /\ vPc = "returned" =>
          /\ TopLevelWritten /\ vOut.qa_report
          /\ assert_output_schema(vOut.top, vReport.stats) = "ok"
    /\ vPc = "raised" =>
          /\ vError \in PreWriteErrors \cup PostWriteErrors
          /\ vError \in PreWriteErrors => vOut = NoOutput
          /\ vError \in PostWriteErrors => (TopLevelWritten /\ ~vOut.qa_report)

C6_Witness ==
    /\ vPc = "raised"
    /\ vError = "ValidationError: bouquets.xml empty"
    /\ TopLevelWritten
    /\ ~vOpts.emit_scanfiles

\* C7: with strict and fail_on_warn both off, a profile holding a service
\* whose transponder_key is missing from the transponders only gets a
\* warning and convert returns a result: with nothing else to object to
\* (no abort_on_empty, a supported api_version, no scanfile emission) the
\* run does not raise.
C7_UnresolvedTransponderOnlyWarns ==
    ( /\ ~vOpts.strict /\ ~vOpts.fail_on_warn
      /\ ~vOpts.abort_on_empty /\ vOpts.api_version = 4 /\ ~vOpts.emit_scanfiles
      /\ Validated
      /\ \E i \in 1..Len(vReport.warnings) : vReport.warnings[i].kind = "unresolved" )
    => vPc # "raised"

(***************************************************************************)
(* io_enigma: write_profile followed by load_profile.  The lamedb file is  *)
(* the sequence of its lines, a line a text.  Services carry no CA ids and *)
(* transponders only the fields of their key, their delivery and their     *)
(* frequency.                                                              *)
(***************************************************************************)
\* text.split(sep)
RECURSIVE Split(_, _)
Split(text, sep) ==
    IF \A i \in 1..Len(text) : text[i] # sep THEN << text >>
    ELSE LET k == CHOOSE i \in 1..Len(text) : text[i] = sep /\ \A j \in 1..(i - 1) : text[j] # sep
         IN << SubSeq(text, 1, k - 1) >> \o Split(SubSeq(text, k + 1, Len(text)), sep)

\* str(n) for n >= 0
RECURSIVE DecStr(_)
DecStr(n) ==
    IF n < 10 THEN << HexDigits[n + 1] >>
    ELSE DecStr(n \div 10) \o << HexDigits[(n % 10) + 1] >>

IsHexText(text) == text # <<>> /\ \A i \in 1..Len(text) : \E d \in 1..16 : HexDigits[d] = LowerChar(text[i])
IsDecText(text) == text # <<>> /\ \A i \in 1..Len(text) : \E d \in 1..10 : HexDigits[d] = text[i]

\* int(text, 10)
RECURSIVE DecValue(_)
DecValue(text) ==
    IF text = <<>> THEN 0
    ELSE 10 * DecValue(SubSeq(text, 1, Len(text) - 1)) + HexDigitValue(text[Len(text)])

\* _safe_int: base 16 when the text holds one of the letters a-f, else base
\* 10; 0 on ValueError
safe_int(value) ==
    LET text == StrStrip(value)
        base == IF \E i \in 1..Len(text) : LowerChar(text[i]) \in {"a","b","c","d","e","f"}
                THEN 16 ELSE 10
    IN IF base = 16 THEN (IF IsHexText(text) THEN HexValue(text) ELSE 0)
       ELSE (IF IsDecText(text) THEN DecValue(text) ELSE 0)

\* key=lambda t: (t.delivery, t.namespace, t.transport_stream_id)
TransponderWriteOrder(a, b) ==
    IF a.delivery # b.delivery THEN StrLess(a.delivery, b.delivery)
    ELSE IF a.namespace # b.namespace THEN a.namespace < b.namespace
    ELSE a.transport_stream_id < b.transport_stream_id

\* key=lambda svc: (svc.namespace, svc.transport_stream_id, svc.service_id)
ServiceWriteOrder(a, b) ==
    IF a.namespace # b.namespace THEN a.namespace < b.namespace
    ELSE IF a.transport_stream_id # b.transport_stream_id
         THEN a.transport_stream_id < b.transport_stream_id
    ELSE a.service_id < b.service_id

\* _format_transponder_payload of a transponder without symbol rate,
\* polarization, fec, orbital position, system and modulation
format_transponder_payload(trans) ==
    LET delivery_char == IF trans.delivery = <<"c","a","b","l","e">> THEN <<"c">>
                         ELSE IF trans.delivery = <<"t","e","r","r","e","s","t","r","i","a","l">> THEN <<"t">> ELSE <<"s">>
    IN delivery_char \o <<" ">> \o DecStr(trans.frequency) \o <<":","0",":","0",":","0",":","0",":","2",":","0",":","0",":","0",":","0",":","0">>

\* the lines of one transponder in _write_lamedb
TransponderLines(trans) ==
    << Hex08(trans.namespace) \o <<":">> \o Hex04(trans.transport_stream_id)
          \o <<":">> \o Hex04(trans.network_id),
       <<"\t">> \o format_transponder_payload(trans),
       <<"/">> >>

\* the lines of one service in _write_lamedb
ServiceLines(service) ==
    << Hex04(service.service_id) \o <<":">> \o Hex08(service.namespace) \o <<":">>
          \o Hex04(service.transport_stream_id) \o <<":">> \o Hex04(service.original_network_id)
          \o <<":">> \o DecStr(service.service_type) \o <<":","0">>,
       service.name >>
    \o (IF ~Falsy(service.provider) THEN << <<"p",":">> \o service.provider.v >> ELSE <<>>)
    \o << <<"/">> >>

\* the concatenation of the line groups of a list
RECURSIVE FlatLines(_)
FlatLines(groups) ==
    IF groups = <<>> THEN <<>> ELSE Head(groups) \o FlatLines(Tail(groups))

\* _write_lamedb
write_lamedb(transponders, services) ==
    << <<"e","D","V","B"," ","s","e","r","v","i","c","e","s"," ","/","4","/">>, <<"t","r","a","n","s","p","o","n","d","e","r","s">> >>
    \o FlatLines(LET sorted == SortedBy(transponders, TransponderWriteOrder)
                 IN [i \in 1..Len(sorted) |-> TransponderLines(sorted[i])])
    \o << <<"s","e","r","v","i","c","e","s">> >>
    \o FlatLines(LET sorted_services == SortedBy(services, ServiceWriteOrder)
                 IN [i \in 1..Len(sorted_services) |-> ServiceLines(sorted_services[i])])
    \o << <<"e","n","d">> >>

\* _parse_transponder_entry: the transponder, or a ValueError
parse_transponder_entry(key_line, data_line) ==
    LET fields == Split(key_line, ":")
        payload == IF data_line = <<>> THEN <<>> ELSE SubSeq(data_line, 2, Len(data_line))
        spaced == [i \in 1..Len(payload) |-> IF payload[i] = " " THEN ":" ELSE payload[i]]
        parts == SelectSeq(Split(spaced, ":"), LAMBDA part : part # <<>>)
        delivery_char == LowerChar(data_line[1])
    IN IF StrLower(key_line) = <<"e","n","d">> \/ Len(fields) # 3 \/ data_line = <<>>
          \/ \E i \in 1..Len(fields) : ~IsHexText(fields[i])
       THEN [raised |-> TRUE]
       ELSE [raised |-> FALSE,
             value |-> [key |-> StrLower(fields[1]) \o <<":">> \o StrLower(fields[2])
                                \o <<":">> \o StrLower(fields[3]),
                        delivery |-> IF delivery_char = "c" THEN <<"c","a","b","l","e">>
                                     ELSE IF delivery_char = "t" THEN <<"t","e","r","r","e","s","t","r","i","a","l">> ELSE <<"s","a","t">>,
                        frequency |-> IF parts # <<>> THEN safe_int(parts[1]) ELSE 0,
                        namespace |-> HexValue(fields[1]),
                        transport_stream_id |-> HexValue(fields[2]),
                        network_id |-> HexValue(fields[3])]]

\* the provider of the last "p:" line, None without one
RECURSIVE ProviderOf(_)
ProviderOf(extra_lines) ==
    IF extra_lines = <<>> THEN PyNone
    ELSE LET line == extra_lines[Len(extra_lines)]
         IN IF StartsWith(line, <<"p",":">>)
            THEN LET text == StrStrip(Split(SubSeq(line, 3, Len(line)), ",")[1])
                 IN IF text = <<>> THEN PyNone ELSE PyStr(text)
            ELSE ProviderOf(SubSeq(extra_lines, 1, Len(extra_lines) - 1))

\* _parse_service_entry on the lines of the file: the service, or a
\* ValueError
parse_service_lines(svc_id_line, name_line, extra_lines) ==
    LET parts == Split(svc_id_line, ":")
    IN IF Len(parts) < 6 \/ ~IsHexText(parts[2]) \/ ~IsHexText(parts[3]) \/ ~IsHexText(parts[4])
       THEN [raised |-> TRUE]
       ELSE [raised |-> FALSE,
             value |-> parse_service_entry(safe_int(parts[1]), parts[2], parts[3], parts[4],
                                           safe_int(parts[5]), ProviderOf(extra_lines),
                                           StrStrip(name_line))]

\* SERVICE_REF_PATTERN.match(text): hexadecimal fields joined by colons, at
\* least two, with an optional trailing colon
MatchesServiceRef(text) ==
    LET fields == Split(text, ":")
        n == IF fields[Len(fields)] = <<>> THEN Len(fields) - 1 ELSE Len(fields)
    IN n >= 2 /\ \A i \in 1..n : IsHexText(fields[i])

\* the first line from position index on that ends the extra lines of a
\* service: a blank line, a service reference, "/" or "end"
RECURSIVE ExtraLinesEnd(_, _)
ExtraLinesEnd(lines, index) ==
    IF index > Len(lines) THEN index
    ELSE LET nxt == StrStrip(lines[index])
         IN IF nxt = <<>> \/ MatchesServiceRef(nxt) \/ nxt = <<"/">> \/ nxt = <<"e","n","d">>
            THEN index
            ELSE ExtraLinesEnd(lines, index + 1)

\* position after an optional "/" separator
SkipSeparator(lines, index) ==
    IF index <= Len(lines) /\ StrStrip(lines[index]) = <<"/">> THEN index + 1 ELSE index

\* the while loop of _parse_lamedb; lines[index] is the line at hand
RECURSIVE ParseLamedbFrom(_, _, _, _)
ParseLamedbFrom(lines, index, state, acc) ==
    IF acc.raised \/ index > Len(lines) THEN acc
    ELSE LET raw == StrStrip(lines[index])
         IN IF raw = <<"t","r","a","n","s","p","o","n","d","e","r","s">> THEN ParseLamedbFrom(lines, index + 1, "trans", acc)
            ELSE IF raw = <<"s","e","r","v","i","c","e","s">> THEN ParseLamedbFrom(lines, index + 1, "services", acc)
            ELSE IF raw = <<"e","n","d">> THEN ParseLamedbFrom(lines, index + 1, "none", acc)
            ELSE IF state = "trans"
            THEN IF index + 1 > Len(lines) THEN acc
                 ELSE LET parsed == parse_transponder_entry(raw, StrStrip(lines[index + 1]))
                      IN IF parsed.raised THEN [acc EXCEPT !.raised = TRUE]
                         ELSE ParseLamedbFrom(lines, SkipSeparator(lines, index + 2), state,
                                  [acc EXCEPT !.transponders = DictSet(@, parsed.value)])
            ELSE IF state = "services"
            THEN IF index + 1 > Len(lines) THEN acc
                 ELSE LET stop == ExtraLinesEnd(lines, index + 2)
                          extra_lines == [i \in 1..(stop - index - 2) |->
                                             StrStrip(lines[index + 1 + i])]
                          parsed == parse_service_lines(raw, lines[index + 1], extra_lines)
                      IN IF parsed.raised THEN [acc EXCEPT !.raised = TRUE]
                         ELSE ParseLamedbFrom(lines, SkipSeparator(lines, stop), state,
                                  [acc EXCEPT !.services = DictSet(@, parsed.value)])
            ELSE ParseLamedbFrom(lines, index + 1, state, acc)

\* _parse_lamedb: the transponders and services in dict order, or a
\* ValueError
parse_lamedb(lines) ==
    IF lines = <<>> \/ ~StartsWith(lines[1], <<"e","D","V","B"," ","s","e","r","v","i","c","e","s">>)
    THEN [raised |-> TRUE, transponders |-> <<>>, services |-> <<>>]
    ELSE ParseLamedbFrom(lines, 2, "none",
                         [raised |-> FALSE, transponders |-> <<>>, services |-> <<>>])

MaxLamedbServices == 2

\* the lines of a lamedb file: two transponders and five services, the
\* service ids written in hexadecimal
OriginalLamedb ==
    [transponders |->
        << << <<"0","0","0","0","0","0","0","1",":","0","0","0","1",":","0","0","0","1">>, <<"\t","s"," ","1","1","0","0","0",":","2","7","5","0","0",":","0",":","3",":","1","9","2",":","2",":","0">> >>,
           << <<"0","0","0","0","0","0","0","a",":","0","0","0","1",":","0","0","0","1">>, <<"\t","c"," ","3","4","6","0","0","0",":","6","9","0","0",":","0",":","3",":","0",":","0",":","0">> >> >>,
     services |->
        << << <<"0","0","1","6",":","0","0","0","0","0","0","0","1",":","0","0","0","1",":","0","0","0","1",":","1",":","0">>, <<"A","B">>, <<"p",":","V">> >>,
           << <<"0","0","1","0",":","0","0","0","0","0","0","0","1",":","0","0","0","1",":","0","0","0","1",":","1",":","0">>, <<"A">> >>,
           << <<"0","0","a","b",":","0","0","0","0","0","0","0","1",":","0","0","0","1",":","0","0","0","1",":","2","5",":","0">>, <<"A"," ","H","D">>, <<"p",":","V">> >>,
           << <<"0","0","0","1",":","0","0","0","0","0","0","0","a",":","0","0","0","1",":","0","0","0","1",":","2",":","0">>, <<"R","a","d","i","o">> >>,
           << <<"0","0","1","0",":","0","0","0","0","0","0","0","a",":","0","0","0","1",":","0","0","0","1",":","1",":","0">>, <<"A">> >> >>]

\* the lamedb file holding the given transponders and services of
\* OriginalLamedb
LamedbOf(transponder_ids, service_ids) ==
    << <<"e","D","V","B"," ","s","e","r","v","i","c","e","s"," ","/","4","/">>, <<"t","r","a","n","s","p","o","n","d","e","r","s">> >>
    \o FlatLines(SelectSeq([i \in 1..Len(OriginalLamedb.transponders) |->
                               IF i \in transponder_ids
                               THEN OriginalLamedb.transponders[i] \o << <<"/">> >> ELSE <<>>],
                           LAMBDA group : group # <<>>))
    \o << <<"e","n","d">>, <<"s","e","r","v","i","c","e","s">> >>
    \o FlatLines(SelectSeq([i \in 1..Len(OriginalLamedb.services) |->
                               IF i \in service_ids
                               THEN OriginalLamedb.services[i] \o << <<"/">> >> ELSE <<>>],
                           LAMBDA group : group # <<>>))
    \o << <<"e","n","d">> >>

NoLamedbProfile == [raised |-> FALSE, transponders |-> <<>>, services |-> <<>>]

LamedbInit ==
    /\ lIn \in [transponders : SUBSET (1..Len(OriginalLamedb.transponders)),
                services : {ids \in SUBSET (1..Len(OriginalLamedb.services)) :
                               Cardinality(ids) <= MaxLamedbServices}]
    /\ lProfile = NoLamedbProfile
    /\ lLines = <<>>
    /\ lOut = NoLamedbProfile
    /\ lPhase = "start"

LamedbIdle ==
    /\ lIn = [transponders |-> {}, services |-> {}]
    /\ lProfile = NoLamedbProfile
    /\ lLines = <<>>
    /\ lOut = NoLamedbProfile
    /\ lPhase = "idle"

\* load_profile(base_path) of the original directory
LamedbLoadOriginal ==
    /\ lPhase = "start"
    /\ lProfile' = parse_lamedb(LamedbOf(lIn.transponders, lIn.services))
    /\ lPhase' = "loaded"
    /\ UNCHANGED <<lIn, lLines, lOut>>
    /\ UNCHANGED otherThanLamedb

\* write_profile(profile, target_dir)
LamedbWriteProfile ==
    /\ lPhase = "loaded"
    /\ ~lProfile.raised
    /\ lLines' = write_lamedb(lProfile.transponders, lProfile.services)
    /\ lPhase' = "written"
    /\ UNCHANGED <<lIn, lProfile, lOut>>
    /\ UNCHANGED otherThanLamedb

\* load_profile(target_dir)
LamedbLoadWritten ==
    /\ lPhase = "written"
    /\ lOut' = parse_lamedb(lLines)
    /\ lPhase' = "reloaded"
    /\ UNCHANGED <<lIn, lProfile, lLines>>
    /\ UNCHANGED otherThanLamedb

LamedbNext == LamedbLoadOriginal \/ LamedbWriteProfile \/ LamedbLoadWritten

\* C12: write_profile followed by load_profile of the written directory
\* yields a profile with the same N services and M transponders: nothing is
\* lost, merged or rejected on re-parse.
C12_RoundTripKeepsCounts ==
    lPhase = "reloaded" =>
        /\ ~lOut.raised
        /\ Len(lOut.services) = Len(lProfile.services)
        /\ Len(lOut.transponders) = Len(lProfile.transponders)

(***************************************************************************)
(* Scanfiles: normalize_scan_entries, write_scanfiles on its bundle, then  *)
(* validate.validate_scanfiles on the target directory.                    *)
(***************************************************************************)
MaxScanfileEntries == 2

\* entries of ScanEntry: a cable entry without last_seen, with an aware and
\* with a naive last_seen, a terrestrial entry and a satellite entry
ScanfileEntryIds == {1, 3, 5, 11, 16}

\* emit_scanfiles, strict_scanfiles and the minimum entries per group
ScanfileOptions ==
    [emit_scanfiles : BOOLEAN, strict_scanfiles : BOOLEAN,
     min_scanfile_entries_cable : {1, 2}, min_scanfile_entries_terrestrial : {1}]

NoScanRun == [error |-> "none", report |-> NoScanReport, files |-> {}]

ScanfilesInit ==
    /\ wEntries \in SeqsUpTo(ScanfileEntryIds, MaxScanfileEntries)
    /\ wOpts \in ScanfileOptions
    /\ wBundle = EmptyScanfileBundle
    /\ wOut = NoScanRun
    /\ wValid = "none"
    /\ wPhase = "input"

ScanfilesIdle ==
    /\ wEntries = <<>>
    /\ wOpts = [emit_scanfiles |-> FALSE, strict_scanfiles |-> FALSE,
                min_scanfile_entries_cable |-> 1, min_scanfile_entries_terrestrial |-> 1]
    /\ wBundle = EmptyScanfileBundle
    /\ wOut = NoScanRun
    /\ wValid = "none"
    /\ wPhase = "idle"

\* result = normalize_scan_entries(entries)
ScanfilesNormalize ==
    /\ wPhase = "input"
    /\ LET result == normalize_scan_entries([i \in 1..Len(wEntries) |-> ScanEntry(wEntries[i], i)])
       IN /\ wBundle' = result.bundle
          /\ wPhase' = IF result.raised THEN "failed" ELSE "normalized"
    /\ UNCHANGED <<wEntries, wOpts, wOut, wValid>>
    /\ UNCHANGED otherThanScanfiles

\* report = write_scanfiles(result.bundle, target_dir, options)
ScanfilesWrite ==
    /\ wPhase = "normalized"
    /\ wOut' = write_scanfiles(wBundle, wOpts)
    /\ wPhase' = IF wOut'.error = "none" THEN "written" ELSE "raised"
    /\ UNCHANGED <<wEntries, wOpts, wBundle, wValid>>
    /\ UNCHANGED otherThanScanfiles

\* validate.validate_scanfiles(target_dir)
ScanfilesValidate ==
    /\ wPhase = "written"
    /\ wValid' = validate_scanfiles(wOut.files)
    /\ wPhase' = "validated"
    /\ UNCHANGED <<wEntries, wOpts, wBundle, wOut>>
    /\ UNCHANGED otherThanScanfiles

ScanfilesNext == ScanfilesNormalize \/ ScanfilesWrite \/ ScanfilesValidate

\* write_scanfiles has been called and has returned or raised.
ScanfilesWriteDone == wPhase \in {"written", "raised", "validated"}

\* The satellite, cable or terrestrial table of the bundle is empty.
ClaimSatelliteTableEmpty == "satellite" \notin DOMAIN wBundle \/ wBundle.satellite = <<>>
ClaimTableEmpty ==
    ClaimSatelliteTableEmpty \/ wBundle.cable = <<>> \/ wBundle.terrestrial = <<>>

\* A group holds fewer entries than its configured minimum.
ClaimGroupBelowMinimum ==
    \/ \E i \in 1..Len(wBundle.cable) :
          Len(wBundle.cable[i].entries) < wOpts.min_scanfile_entries_cable
    \/ \E i \in 1..Len(wBundle.terrestrial) :
          Len(wBundle.terrestrial[i].entries) < wOpts.min_scanfile_entries_terrestrial

ClaimWarned(warning) ==
    \E i \in 1..Len(wOut.report.warnings) : wOut.report.warnings[i] = warning

EmptyTableWarnings ==
    {"no satellites available for satellites.xml",
     "no cable providers available for cables.xml",
     "no terrestrial regions available for terrestrial.xml"}

\* C13: with strict_scanfiles set (and scanfile emission enabled),
\* write_scanfiles raises ScanfileError and returns no report whenever the
\* satellite, cable or terrestrial table would be empty or a group holds
\* fewer entries than its minimum.
C13_StrictRaisesScanfileError ==
    (ScanfilesWriteDone /\ wOpts.emit_scanfiles /\ wOpts.strict_scanfiles
        /\ (ClaimTableEmpty \/ ClaimGroupBelowMinimum))
        => (wPhase = "raised" /\ wOut.error = "ScanfileError")

\* C14: with strict_scanfiles off (and scanfile emission enabled),
\* write_scanfiles never raises ScanfileError and returns a report in which
\* every empty table and every group below its minimum is recorded as a
\* warning.
C14_LenientWarnsAndContinues ==
    (ScanfilesWriteDone /\ wOpts.emit_scanfiles /\ ~wOpts.strict_scanfiles)
        => /\ wOut.error # "ScanfileError"
           /\ wOut.error = "none"
           /\ ClaimSatelliteTableEmpty => ClaimWarned("no satellites available for satellites.xml")
           /\ wBundle.cable = <<>> => ClaimWarned("no cable providers available for cables.xml")
           /\ wBundle.terrestrial = <<>>
                 => ClaimWarned("no terrestrial regions available for terrestrial.xml")
           /\ ClaimGroupBelowMinimum
                 => \E i \in 1..Len(wOut.report.warnings) :
                       wOut.report.warnings[i] \notin EmptyTableWarnings

\* C15: the scanfiles written from a normalized bundle with at least one
\* cable and one terrestrial entry are accepted by validate_scanfiles.
C15_WrittenScanfilesValidate ==
    (ScanfilesWriteDone /\ wOpts.emit_scanfiles /\ ~wOpts.strict_scanfiles
        /\ wBundle.cable # <<>> /\ wBundle.terrestrial # <<>>)
        => /\ wOut.error = "none"
           /\ {"cables", "terrestrial"} \subseteq wOut.report.output_paths
           /\ validate_scanfiles(wOut.files) = "ok"

\* The entries normalize_scan_entries keeps (one per identity).
ClaimKeptEntries ==
    deduplicate_scan_entries([i \in 1..Len(wEntries) |-> ScanEntry(wEntries[i], i)]).entries

ClaimIsSatellite(entry) ==
    StartsWith(StrUpper(OrEmpty(entry.delivery_system)), <<"D","V","B","-","S">>)

\* C16: a satellite-class entry passed through normalize_scan_entries is in
\* a satellite group of the bundle, and write_scanfiles reports a
\* 'satellites' output.
C16_SatelliteEntriesGrouped ==
    \A i \in 1..Len(ClaimKeptEntries) :
        ClaimIsSatellite(ClaimKeptEntries[i]) =>
            /\ wPhase \in {"normalized", "written", "raised", "validated"}
                  => /\ "satellite" \in DOMAIN wBundle
                     /\ \E g \in 1..Len(wBundle.satellite) :
                           \E e \in 1..Len(wBundle.satellite[g].entries) :
                               wBundle.satellite[g].entries[e] = ClaimKeptEntries[i]
            /\ (ScanfilesWriteDone /\ wOpts.emit_scanfiles /\ ~wOpts.strict_scanfiles)
                  => "satellites" \in wOut.report.output_paths

(***************************************************************************)
(* io_neutrino.write_outputs on its own: a profile, the delivery selection *)
(* of the options, and the directories the call leaves behind.             *)
(***************************************************************************)
\* include_types as the set of its items, the three include flags
OutputsOptions ==
    [api_version : {4}, include_types : SUBSET {"S", "C", "T"},
     include_sat : BOOLEAN, include_cable : BOOLEAN, include_terrestrial : BOOLEAN]

NoOutputs == [raised |-> FALSE, top |-> <<>>, groups |-> {}]

OutputsInit ==
    /\ oIn \in ConvertInputs
    /\ oOpts \in OutputsOptions
    /\ oOut = NoOutputs
    /\ oPhase = "profile"

OutputsIdle ==
    /\ oIn = [transponders |-> {}, services |-> <<>>]
    /\ oOpts = [api_version |-> 4, include_types |-> {}, include_sat |-> TRUE,
                include_cable |-> TRUE, include_terrestrial |-> TRUE]
    /\ oOut = NoOutputs
    /\ oPhase = "idle"

\* write_outputs(profile, out_dir, options) on a profile without bouquets
OutputsWriteOutputs ==
    /\ oPhase = "profile"
    /\ oOut' = write_outputs(ConvertServicesOf(oIn.services), oIn.transponders, <<>>, oOpts)
    /\ oPhase' = "written"
    /\ UNCHANGED <<oIn, oOpts>>
    /\ UNCHANGED otherThanOutputs

OutputsNext == OutputsWriteOutputs

\* The delivery type is named by include_types (or include_types is unset)
\* and its include flag is true.
ClaimDeliverySelected(delivery) ==
    /\ \/ oOpts.include_types = {}
       \/ delivery = "sat" /\ "S" \in oOpts.include_types
       \/ delivery = "cable" /\ "C" \in oOpts.include_types
       \/ delivery = "terrestrial" /\ "T" \in oOpts.include_types
    /\ delivery = "sat" => oOpts.include_sat
    /\ delivery = "cable" => oOpts.include_cable
    /\ delivery = "terrestrial" => oOpts.include_terrestrial

\* The keys of the services of the profile whose transponder is known and
\* whose delivery type is selected
ClaimSelectedKeys ==
    {ConvertServices[id].key : id \in
        {id \in SeqRange(oIn.services) :
            /\ DeliveryOf(ConvertServices[id], oIn.transponders) # "none"
            /\ ClaimDeliverySelected(DeliveryOf(ConvertServices[id], oIn.transponders))}}

\* C17: the top-level services.xml written by write_outputs holds exactly
\* the services of the delivery types selected by the configuration: no
\* service of a type left out of include_types or switched off by
\* include_sat / include_cable / include_terrestrial is in it.
C17_AllBundleHoldsSelectedTypes ==
    oPhase = "written" => SeqRange(oOut.top[1].services) = ClaimSelectedKeys

(***************************************************************************)
(* adapters/dvbsi: DvbSiAdapter.ingest on a dump file, the file being the  *)
(* sequence of its lines.  The lines of the model carry none of the        *)
(* optional fields frequency, symbol_rate, orbital and provider.           *)
(***************************************************************************)
\* [0-9a-fA-Fx]
DumpValueChars ==
    Digits \cup {"a","b","c","d","e","f","A","B","C","D","E","F","x"}

\* \w of a text that keeps its case
DumpWordChars == WordChars \cup {UpperChar(c) : c \in Letters}

\* The end of the longest run of characters of a class that starts at i
\* (i - 1 if there is none): a greedy class+ or class*
RunEnd(text, i, class) ==
    CHOOSE j \in (i - 1)..Len(text) :
        /\ \A k \in i..j : text[k] \in class
        /\ j = Len(text) \/ text[j + 1] \notin class

StartsWithAt(text, i, literal) ==
    /\ i + Len(literal) - 1 <= Len(text)
    /\ SubSeq(text, i, i + Len(literal) - 1) = literal

NoField == [ok |-> FALSE, value |-> <<>>, next |-> 0]

\* F(value) for the value of an expression, which is computed once
Once(value, F(_)) == CHOOSE result \in {F(v) : v \in {value}} : TRUE

\* \s+key(?P<name>class+) matched at position i
TakeField(text, i, key, class) ==
    Once(RunEnd(text, i, Whitespace), LAMBDA gap :
        IF gap >= i /\ StartsWithAt(text, gap + 1, key)
        THEN Once(RunEnd(text, gap + 1 + Len(key), class), LAMBDA end :
                 IF end >= gap + 1 + Len(key)
                 THEN [ok |-> TRUE, value |-> SubSeq(text, gap + 1 + Len(key), end),
                       next |-> end + 1]
                 ELSE NoField)
        ELSE NoField)

\* \s+name="(?P<name>[^"]+)" matched at position i
TakeName(text, i) ==
    Once(TakeField(text, i, <<"n","a","m","e","=","\"">>, AnyChar \ {"\""}), LAMBDA field :
        IF field.ok /\ StartsWithAt(text, field.next, <<"\"">>)
        THEN [field EXCEPT !.next = @ + 1] ELSE NoField)

NoMatch == [ok |-> FALSE, sid |-> <<>>, onid |-> <<>>, tsid |-> <<>>, namespace |-> <<>>,
            name |-> <<>>, type |-> <<>>, delivery |-> PyNone]

\* pattern.match(line) and match.groupdict() of _parse_dump
pattern_match(line) ==
    IF ~StartsWithAt(line, 1, <<"#","S","E","R","V","I","C","E">>) THEN NoMatch ELSE
    Once(TakeField(line, 9, <<"s","i","d","=">>, DumpValueChars), LAMBDA sid :
    IF ~sid.ok THEN NoMatch ELSE
    Once(TakeField(line, sid.next, <<"o","n","i","d","=">>, DumpValueChars), LAMBDA onid :
    IF ~onid.ok THEN NoMatch ELSE
    Once(TakeField(line, onid.next, <<"t","s","i","d","=">>, DumpValueChars), LAMBDA tsid :
    IF ~tsid.ok THEN NoMatch ELSE
    Once(TakeField(line, tsid.next, <<"n","a","m","e","s","p","a","c","e","=">>, DumpValueChars), LAMBDA namespace :
    IF ~namespace.ok THEN NoMatch ELSE
    Once(TakeName(line, namespace.next), LAMBDA name :
    IF ~name.ok THEN NoMatch ELSE
    Once(TakeField(line, name.next, <<"t","y","p","e","=">>, Digits), LAMBDA type :
    IF ~type.ok THEN NoMatch ELSE
    Once(TakeField(line, type.next, <<"d","e","l","i","v","e","r","y","=">>, DumpWordChars), LAMBDA delivery :
        [ok |-> TRUE, sid |-> sid.value, onid |-> onid.value, tsid |-> tsid.value,
         namespace |-> namespace.value, name |-> name.value, type |-> type.value,
         delivery |-> IF delivery.ok THEN PyStr(delivery.value) ELSE PyNone])))))))

\* int(text, 16 if "x" in text else 10) for a text of [0-9a-fA-Fx]+; ok is
\* false where int raises ValueError
int_of_field(text) ==
    IF "x" \in SeqRange(text)
    THEN IF Len(text) >= 3 /\ text[1] = "0" /\ text[2] = "x"
            /\ IsHexText(SubSeq(text, 3, Len(text)))
         THEN [ok |-> TRUE, value |-> HexValue(SubSeq(text, 3, Len(text)))]
         ELSE [ok |-> FALSE, value |-> 0]
    ELSE IF IsDecText(text) THEN [ok |-> TRUE, value |-> DecValue(text)]
         ELSE [ok |-> FALSE, value |-> 0]

\* the ids are the only input of the transponder key
DumpTransponderSet(transponders, trans_key, delivery, namespace, tsid, onid) ==
    IF \E i \in 1..Len(transponders) : transponders[i].key = trans_key THEN transponders
    ELSE Append(transponders,
                [key |-> trans_key, delivery |-> delivery, network_id |-> onid,
                 transport_stream_id |-> tsid, namespace |-> namespace])

\* the service of a line whose ids are not zero
DumpService(data, namespace, tsid, onid, sid) ==
    LET trans_key == Hex08(namespace) \o <<":">> \o Hex04(tsid) \o <<":">> \o Hex04(onid)
    IN [key |-> trans_key \o <<":">> \o Hex04(sid), name |-> data.name,
        service_type |-> DecValue(data.type), service_id |-> sid,
        transponder_key |-> trans_key, original_network_id |-> onid,
        transport_stream_id |-> tsid, namespace |-> namespace, provider |-> <<"D","V","B">>]

\* one line of the loop of _parse_dump: the dicts after it, or the ValueError
ParseDumpLine(acc, line) ==
    Once(pattern_match(StrStrip(line)), LAMBDA data :
        IF ~data.ok THEN acc
        ELSE LET delivery == StrLower(IF Falsy(data.delivery) THEN <<"s","a","t">> ELSE data.delivery.v)
                 namespace == int_of_field(data.namespace)
                 tsid == int_of_field(data.tsid)
                 onid == int_of_field(data.onid)
                 sid == int_of_field(data.sid)
             IN IF ~namespace.ok \/ ~tsid.ok \/ ~onid.ok \/ ~sid.ok
                   \/ onid.value = 0 \/ tsid.value = 0
                THEN [raised |-> TRUE, services |-> <<>>, transponders |-> <<>>]
                ELSE Once(DumpService(data, namespace.value, tsid.value, onid.value, sid.value),
                          LAMBDA service :
                     [raised |-> FALSE,
                      services |-> DictSet(acc.services, service),
                      transponders |-> DumpTransponderSet(acc.transponders,
                          service.transponder_key, delivery, namespace.value, tsid.value,
                          onid.value)]))

\* _parse_dump from line k on: the services and transponders read, or the
\* ValueError of the first line that raises
RECURSIVE ParseDumpFrom(_, _, _)
ParseDumpFrom(lines, k, acc) ==
    IF k > Len(lines) \/ acc.raised THEN acc
    ELSE Once(ParseDumpLine(acc, lines[k]), LAMBDA next : ParseDumpFrom(lines, k + 1, next))

\* dvbsi._parse_dump
parse_dump(lines) ==
    ParseDumpFrom(lines, 1, [raised |-> FALSE, services |-> <<>>, transponders |-> <<>>])

\* dvbsi._build_service_ref
build_service_ref(service) ==
    <<"1",":","0",":">> \o DecStr(service.service_type) \o <<":">> \o Hex04(service.service_id) \o <<":">>
    \o Hex04(service.transport_stream_id) \o <<":">> \o Hex04(service.original_network_id)
    \o <<":">> \o Hex08(service.namespace) \o <<":","0",":","0",":","0",":">>

\* DvbSiAdapter.ingest on an existing dump: the profiles returned, or the
\* error raised
dvbsi_ingest(lines) ==
    Once(parse_dump(lines), LAMBDA parsed :
       IF parsed.raised THEN [raised |-> TRUE, error |-> "ValueError", profiles |-> <<>>]
       ELSE [raised |-> FALSE, error |-> "none",
             profiles |-> << [services |-> parsed.services,
                              transponders |-> parsed.transponders,
                              bouquets |-> << [name |-> <<"D","V","B"," ","S","c","a","n">>,
                                  entries |-> [i \in 1..Len(parsed.services) |->
                                      [service_ref |-> build_service_ref(parsed.services[i]),
                                       name |-> parsed.services[i].name]]] >>] >>])

MaxDumpLines == 2

\* The service records of the model, by their fields as written in the
\* dump (PyNone: the field is not in the line).
DumpRecord(sid, onid, tsid, namespace, name, type, delivery) ==
    [sid |-> sid, onid |-> onid, tsid |-> tsid, namespace |-> namespace, name |-> name,
     type |-> type, delivery |-> delivery]

DumpRecords ==
    << DumpRecord(PyStr(<<"0","x","1">>), PyStr(<<"0","x","1">>), PyStr(<<"0","x","1">>), PyStr(<<"0","x","1">>), <<"A">>, <<"1">>, PyNone),
       DumpRecord(PyStr(<<"0","x","2">>), PyStr(<<"0","x","1">>), PyStr(<<"0","x","1">>), PyStr(<<"0","x","1">>), <<"B">>, <<"1">>, PyNone),
       DumpRecord(PyStr(<<"0","x","1">>), PyStr(<<"0","x","0">>), PyStr(<<"0","x","0">>), PyStr(<<"0","x","1">>), <<"B","r","o","k","e","n">>, <<"1">>, PyNone),
       DumpRecord(PyStr(<<"0","x","1">>), PyStr(<<"0","x","1">>), PyStr(<<"0">>), PyStr(<<"0","x","1">>), <<"A">>, <<"1">>, PyNone),
       DumpRecord(PyStr(<<"0","x","1">>), PyNone, PyStr(<<"0","x","1">>), PyStr(<<"0","x","1">>), <<"A">>, <<"1">>, PyNone),
       DumpRecord(PyStr(<<"0","x","1">>), PyStr(<<"0","x","1">>), PyNone, PyStr(<<"0","x","1">>), <<"A">>, <<"1">>, PyNone),
       DumpRecord(PyStr(<<"1","0">>), PyStr(<<"1","6">>), PyStr(<<"1">>), PyStr(<<"1">>), <<"C">>, <<"2">>, PyStr(<<"C","a","b","l","e">>)),
       DumpRecord(PyStr(<<"0","x","1">>), PyStr(<<"0","0">>), PyStr(<<"0","x","1">>), PyStr(<<"0","x","1">>), <<"A">>, <<"1">>, PyNone) >>

DumpRecordIds == 1..Len(DumpRecords)

\* The line of a record: #SERVICE and the key=value fields it has
DumpLine(record) ==
    LET field(key, value) == IF value = PyNone THEN <<>> ELSE key \o value.v
    IN <<"#","S","E","R","V","I","C","E">> \o field(<<" ","s","i","d","=">>, record.sid) \o field(<<" ","o","n","i","d","=">>, record.onid)
       \o field(<<" ","t","s","i","d","=">>, record.tsid) \o field(<<" ","n","a","m","e","s","p","a","c","e","=">>, record.namespace)
       \o <<" ","n","a","m","e","=","\"">> \o record.name \o <<"\""," ","t","y","p","e","=">> \o record.type
       \o field(<<" ","d","e","l","i","v","e","r","y","=">>, record.delivery)

NoIngest == [raised |-> FALSE, error |-> "none", profiles |-> <<>>]

DvbsiInit ==
    /\ xDump \in SeqsUpTo(DumpRecordIds, MaxDumpLines)
    /\ xOut = NoIngest
    /\ xPhase = "dump"

DvbsiIdle ==
    /\ xDump = <<>>
    /\ xOut = NoIngest
    /\ xPhase = "idle"

\* adapter.ingest(source_dir, {"path": dump_path})
DvbsiIngest ==
    /\ xPhase = "dump"
    /\ \E lines \in {[i \in 1..Len(xDump) |-> DumpLine(DumpRecords[xDump[i]])]} :
           xOut' = dvbsi_ingest(lines)
    /\ xPhase' = "ingested"
    /\ UNCHANGED xDump
    /\ UNCHANGED otherThanDvbsi

DvbsiNext == DvbsiIngest

\* The spellings of zero among the ids of the records
ClaimZeroIds == {<<"0">>, <<"0","0">>, <<"0","x","0">>}

\* The record has no network id or no transport stream id, or a zero one.
ClaimMissingJoiningId(record) ==
    \/ record.onid = PyNone \/ record.tsid = PyNone
    \/ record.onid.v \in ClaimZeroIds \/ record.tsid.v \in ClaimZeroIds

\* C18: a dump with a service record whose network id or transport stream
\* id is absent or zero makes the dvbsi ingest raise: the record is not
\* skipped and no profile is returned.
C18_MissingJoiningIdRaises ==
    (xPhase = "ingested" /\ \E i \in 1..Len(xDump) : ClaimMissingJoiningId(DumpRecords[xDump[i]]))
        => xOut.raised /\ xOut.profiles = <<>>

(***************************************************************************)
(* Category bouquets with the catalogs of e2neutrino.data loaded at        *)
(* import: paytv_networks.json, provider_categories.json and               *)
(* radio_category_patterns.json.  A category name is a string; a keyword   *)
(* and a provider are texts.                                               *)
(***************************************************************************)
\* " - ".join(parts)
RECURSIVE JoinDash(_)
JoinDash(parts) ==
    IF Len(parts) = 1 THEN parts[1]
    ELSE JoinDash(SubSeq(parts, 1, Len(parts) - 1)) \o " - " \o parts[Len(parts)]

\* category_name of an entry of the pay-tv catalog
paytv_category_name(entry) ==
    JoinDash(<< "PayTV", entry.brand >>
             \o (IF entry.country # "" THEN << entry.country >> ELSE <<>>)
             \o (IF entry.resolution # "" THEN << entry.resolution >> ELSE <<>>))

\* _load_paytv_catalog: PAYTV_LOOKUP for a catalog whose entries have a brand
load_paytv_catalog(catalog) ==
    LET usable == SelectSeq(catalog, LAMBDA entry :
                      entry.brand # "" /\ SelectSeq(entry.keywords, LAMBDA k : StrStrip(k) # <<>>) # <<>>)
    IN [i \in 1..Len(usable) |->
          [category |-> paytv_category_name(usable[i]),
           keywords |-> LET kept == SelectSeq(usable[i].keywords, LAMBDA k : StrStrip(k) # <<>>)
                        IN [k \in 1..Len(kept) |-> StrLower(kept[k])]]]

\* _load_provider_categories: PROVIDER_CATEGORY_LOOKUP
load_provider_categories(catalog) ==
    LET usable == SelectSeq(catalog, LAMBDA entry :
                      StrStrip(entry.provider) # <<>> /\ entry.category # "")
    IN [i \in 1..Len(usable) |->
          [provider |-> StrLower(StrStrip(usable[i].provider)), category |-> usable[i].category]]

\* the names appended to order_mutable: those not yet a key of
\* CATEGORY_PATTERNS, each once
RECURSIVE AppendNewCategories(_, _)
AppendNewCategories(order, names) ==
    IF names = <<>> THEN order
    ELSE AppendNewCategories(
             IF \E i \in 1..Len(order) : order[i] = Head(names) THEN order
             ELSE Append(order, Head(names)),
             Tail(names))

\* CATEGORY_ORDER after _load_paytv_catalog and _load_provider_categories
category_order(catalog) ==
    LET paytv == load_paytv_catalog(catalog.paytv)
        providers == load_provider_categories(catalog.providers)
    IN AppendNewCategories(
           AppendNewCategories(CATEGORY_ORDER, [i \in 1..Len(paytv) |-> paytv[i].category]),
           [i \in 1..Len(providers) |-> providers[i].category])

\* _match_paytv_categories
match_paytv_categories(service, lookup) ==
    LET name == StrLower(service.name)
        provider == StrLower(OrEmpty(service.provider))
        hits == SelectSeq(lookup, LAMBDA entry :
                    \E k \in 1..Len(entry.keywords) :
                        Contains(name, entry.keywords[k]) \/ Contains(provider, entry.keywords[k]))
    IN [i \in 1..Len(hits) |-> hits[i].category]

\* _match_provider_category: the category as a list (empty for None)
match_provider_category(service, lookup) ==
    LET provider == StrStrip(StrLower(OrEmpty(service.provider)))
        hits == SelectSeq(lookup, LAMBDA entry : Contains(provider, entry.provider))
    IN IF provider = <<>> \/ hits = <<>> THEN <<>> ELSE << hits[1].category >>

\* _match_radio_categories: the categories of RADIO_CATEGORY_PATTERNS, in
\* the order of the dict, one of whose patterns matches
match_radio_categories(service, radio_patterns) ==
    SelectSeq(radio_patterns, LAMBDA entry :
        AnyPatternMatches(entry.patterns, StrLower(Haystack(service))))

\* the categories a tv service is appended to, in the order of the appends
service_categories(service, paytv, providers) ==
    << infer_category(service) >> \o match_paytv_categories(service, paytv)
    \o match_provider_category(service, providers) \o match_resolution_categories(service)

\* category_buckets[category] after the loop over services_sorted: every
\* service once for each time the category was appended for it
RECURSIVE CategoryBucket(_, _, _)
CategoryBucket(tv, categories, category) ==
    IF tv = <<>> THEN <<>>
    ELSE LET hits == SelectSeq(Head(categories), LAMBDA c : c = category)
         IN [i \in 1..Len(hits) |-> Head(tv)]
            \o CategoryBucket(Tail(tv), Tail(categories), category)

RECURSIVE ServiceCategoriesOf(_, _, _)
ServiceCategoriesOf(tv, paytv, providers) ==
    IF tv = <<>> THEN <<>>
    ELSE << service_categories(Head(tv), paytv, providers) >>
         \o ServiceCategoriesOf(Tail(tv), paytv, providers)

\* the items in the insertion order of the dict
RadioCategoryLess_insertion_order(a, b) == FALSE

\* sorted(radio_category_buckets.items())
RadioCategoryLess(a, b) == StrLess(a.key, b.key)

\* _apply_category_bouquets with the catalogs loaded
apply_category_bouquets_with_catalog(services, bouquets, catalog) ==
    LET services_sorted == SortedServices(services)
        tv == SelectSeq(services_sorted, LAMBDA s : ~IsRadio(s))
        radio == SelectSeq(services_sorted, LAMBDA s : IsRadio(s))
        refs(list) == [i \in 1..Len(list) |-> service_to_ref(list[i])]
        order == category_order(catalog)
    IN Once(ServiceCategoriesOf(tv, load_paytv_catalog(catalog.paytv),
                                load_provider_categories(catalog.providers)),
            LAMBDA categories :
       LET bouquet(name, list) ==
               IF list # <<>> THEN << [name |-> name, entries |-> refs(list)] >> ELSE <<>>
           category_bouquets[k \in 0..Len(order)] ==
               IF k = 0 THEN <<>>
               ELSE category_bouquets[k - 1]
                    \o bouquet(order[k], CategoryBucket(tv, categories, order[k]))
           radio_sorted == SortedBy(catalog.radio, RadioCategoryLess)
           radio_bouquets[k \in 0..Len(radio_sorted)] ==
               IF k = 0 THEN <<>>
               ELSE radio_bouquets[k - 1]
                    \o bouquet(radio_sorted[k].category,
                               SelectSeq(radio, LAMBDA s :
                                   match_radio_categories(s, << radio_sorted[k] >>) # <<>>))
       IN bouquet("General", tv)
          \o category_bouquets[Len(order)]
          \o (IF radio # <<>>
              THEN bouquet("Radio", radio) \o radio_bouquets[Len(radio_sorted)]
              ELSE <<>>)
          \o bouquets)

MaxCatalogServices == 2

PayTvEntry(brand, country, resolution, keywords) ==
    [brand |-> brand, country |-> country, resolution |-> resolution, keywords |-> keywords]

\* one category of radio_category_patterns.json: its name, the characters
\* of the name, its compiled keywords
RadioCategory(category, key, patterns) ==
    [category |-> category, key |-> key, patterns |-> patterns]

\* The catalogs of the model: none (no data file), a pay-tv catalog with two
\* entries of one brand, a provider catalog that names a category of
\* CATEGORY_ORDER, and catalogs that add categories of their own.
Catalogs ==
    << [paytv |-> <<>>, providers |-> <<>>, radio |-> <<>>],
       [paytv |-> << PayTvEntry("Sky", "DE", "", << <<"S","k","y">> >>),
                     PayTvEntry("Sky", "DE", "", << <<"N","e","w","s">>, <<" ">> >>) >>,
        providers |-> <<>>, radio |-> <<>>],
       [paytv |-> <<>>,
        providers |-> << [provider |-> <<"S","k","y"," ">>, category |-> "News"] >>,
        radio |-> <<>>],
       [paytv |-> << PayTvEntry("Canal", "", "HD", << <<"c","a","n","a","l">> >>),
                     PayTvEntry("", "FR", "", << <<"t","f","1">> >>) >>,
        providers |-> << [provider |-> <<"V">>, category |-> "Vendor"] >>,
        radio |-> << RadioCategory("Talk", <<"T","a","l","k">>, << Lit(<<"n","e","w","s">>) >>),
                     RadioCategory("Info", <<"I","n","f","o">>, << Lit(<<"r","a","d","i","o">>) >>),
                     RadioCategory("Jazz", <<"J","a","z","z">>, << Lit(<<"j","a","z","z">>) >>) >>] >>

CatalogInit ==
    /\ gServices \in {q \in SeqsUpTo(ClassifyServiceIds, MaxCatalogServices) :
                         \A i, j \in 1..Len(q) : i # j => q[i] # q[j]}
    /\ gBouquets \in {<<>>, << LegacyBouquet >>}
    /\ gCatalog \in 1..Len(Catalogs)
    /\ gOut = <<>>
    /\ gPhase = "loaded"

CatalogIdle ==
    /\ gServices = <<>>
    /\ gBouquets = <<>>
    /\ gCatalog = 1
    /\ gOut = <<>>
    /\ gPhase = "idle"

\* _apply_category_bouquets(profile, name_map)
CatalogApplyCategoryBouquets ==
    /\ gPhase = "loaded"
    /\ \E services \in {[i \in 1..Len(gServices) |-> ClassifyServices[gServices[i]]]} :
           gOut' = apply_category_bouquets_with_catalog(services, gBouquets, Catalogs[gCatalog])
    /\ gPhase' = "classified"
    /\ UNCHANGED <<gServices, gBouquets, gCatalog>>
    /\ UNCHANGED otherThanCatalog

CatalogNext == CatalogApplyCategoryBouquets

\* the catalog-backed bouquets of a result: all but the bouquets the profile
\* had before the call
ClaimSynthesized == SubSeq(gOut, 1, Len(gOut) - Len(gBouquets))

ClaimCatalogServices == {ClassifyServices[gServices[i]] : i \in 1..Len(gServices)}

ClaimTvServices == {s \in ClaimCatalogServices : ~IsRadio(s)}

ClaimRadioServices == {s \in ClaimCatalogServices : IsRadio(s)}

\* the list of the given services ordered by lower-cased name, then service id
ClaimByNameThenId(services) ==
    CHOOSE q \in SeqsUpTo(services, Cardinality(services)) :
        /\ SeqRange(q) = services
        /\ Len(q) = Cardinality(services)
        /\ \A i, j \in 1..Len(q) : i < j =>
               \/ StrLess(StrLower(q[i].name), StrLower(q[j].name))
               \/ /\ StrLower(q[i].name) = StrLower(q[j].name)
                  /\ q[i].service_id < q[j].service_id

\* the categories of the catalog order that hold a non-radio service
ClaimNonEmptyCategories ==
    Once(UNION {SeqRange(service_categories(s,
                             load_paytv_catalog(Catalogs[gCatalog].paytv),
                             load_provider_categories(Catalogs[gCatalog].providers))) :
                s \in ClaimTvServices},
         LAMBDA used : SelectSeq(category_order(Catalogs[gCatalog]),
                                 LAMBDA category : category \in used))

\* the radio sub-categories that hold a radio service, by ascending name
ClaimNonEmptyRadioCategories ==
    LET hit == {k \in 1..Len(Catalogs[gCatalog].radio) :
                   \E s \in ClaimRadioServices :
                       AnyPatternMatches(Catalogs[gCatalog].radio[k].patterns,
                                         StrLower(Haystack(s)))}
        q == CHOOSE q \in SeqsUpTo(hit, Cardinality(hit)) :
                 /\ SeqRange(q) = hit
                 /\ Len(q) = Cardinality(hit)
                 /\ \A i, j \in 1..Len(q) : i < j =>
                        StrLess(Catalogs[gCatalog].radio[q[i]].key,
                                Catalogs[gCatalog].radio[q[j]].key)
    IN [i \in 1..Len(q) |-> Catalogs[gCatalog].radio[q[i]].category]

ClaimBouquetNames ==
    (IF ClaimTvServices # {} THEN << "General" >> ELSE <<>>)
    \o ClaimNonEmptyCategories
    \o (IF ClaimRadioServices # {}
        THEN << "Radio" >> \o ClaimNonEmptyRadioCategories
        ELSE <<>>)

\* C23: after _apply_category_bouquets the bouquets are "General" (the
\* non-radio services by lower-cased name, then service id), one bouquet for
\* every non-empty category in catalog order, "Radio" and the non-empty radio
\* sub-categories by name when a radio service exists, then the bouquets the
\* profile had before, unchanged and in their order; no synthesized bouquet
\* is empty.
C23_BouquetOrder ==
    gPhase = "classified" =>
        /\ Len(gOut) >= Len(gBouquets)
        /\ SubSeq(gOut, Len(gOut) - Len(gBouquets) + 1, Len(gOut)) = gBouquets
        /\ [i \in 1..Len(ClaimSynthesized) |-> ClaimSynthesized[i].name] = ClaimBouquetNames
        /\ \A i \in 1..Len(ClaimSynthesized) : ClaimSynthesized[i].entries # <<>>
        /\ ClaimTvServices # {} =>
               gOut[1].entries = LET tv == ClaimByNameThenId(ClaimTvServices)
                                 IN [i \in 1..Len(tv) |-> service_to_ref(tv[i])]

\* a profile with a legacy bouquet, a television service and a radio service
\* that matches two radio sub-categories, under catalogs that add categories
C23_Witness ==
    /\ gPhase = "classified"
    /\ gBouquets # <<>>
    /\ Len(gOut) >= 6
    /\ gOut[1].name = "General"
    /\ \E i \in 1..Len(gOut) - 2 :
           /\ gOut[i].name = "Radio"
           /\ gOut[i + 1].name = "Info"
           /\ gOut[i + 2].name = "Talk"
    /\ \E i \in 1..Len(gOut) : gOut[i].name = "PayTV - Canal - HD"
    /\ gOut[Len(gOut)] = LegacyBouquet

\* C27: no bouquet synthesized by _apply_category_bouquets holds two entries
\* for the same service, whatever the pay-tv and provider catalogs are.
C27_NoServiceTwiceInBouquet ==
    gPhase = "classified" =>
        \A b \in 1..Len(ClaimSynthesized) :
            \A i, j \in 1..Len(ClaimSynthesized[b].entries) :
                i # j => ClaimSynthesized[b].entries[i] # ClaimSynthesized[b].entries[j]

\* the same, for the profiles converted without any catalog file
ClaimNoCatalogNoServiceTwice == gCatalog = 1 => C27_NoServiceTwiceInBouquet

(***************************************************************************)
(* Identity in _deduplicate_profile and in validate_profile.               *)
(***************************************************************************)
\* C25: validate_profile run after _deduplicate_profile reports no
\* duplicates, and assert_no_dupes in convert never raises.
C25_DedupAndValidationAgree ==
    /\ vPc \notin {"idle", "loaded", "fresh"} =>
           detect_duplicates(ConvertServicesOf(vProfile.services)) = <<>>
    /\ vReport.duplicates = <<>>
    /\ vError # "ValidationError: duplicates"

\* a profile that held two services of one identity has passed
\* assert_no_dupes
C25_Witness ==
    /\ vPc = "unique"
    /\ vProfile.removed > 0
    /\ \E i, j \in 1..Len(vIn.services) :
           /\ i # j
           /\ validate_service_identity(ConvertServices[vIn.services[i]])
                = validate_service_identity(ConvertServices[vIn.services[j]])

(***************************************************************************)
(* The services.xml of write_outputs against the count that                *)
(* assert_output_schema expects.                                           *)
(***************************************************************************)
\* validate_profile(profile) of the profile that write_outputs is given
ClaimOutputsReport ==
    validate_profile(ConvertServicesOf(oIn.services), oIn.transponders, <<>>)

\* C26: for a profile with at least one service that validates without
\* warnings, and for every include_types and include_sat / include_cable /
\* include_terrestrial, the top-level services.xml holds exactly
\* stats.total_services services, so the count check of
\* assert_output_schema passes.
C26_ServicesXmlHoldsTotalServices ==
    (/\ oPhase = "written"
     /\ oIn.services # <<>>
     /\ ClaimOutputsReport.warnings = <<>>)
    => /\ oOut.top # <<>>
       /\ oOut.top[1].services_xml = ClaimOutputsReport.stats.total_services
       /\ assert_output_schema(oOut.top, ClaimOutputsReport.stats) # "services.xml count"

\* the same with include_types unset
ClaimUnfilteredServicesXmlHoldsTotal ==
    oOpts.include_types = {} => C26_ServicesXmlHoldsTotalServices

(***************************************************************************)
(* ingest.py: _http_get_with_retry and _perform_http_request.  A url is a  *)
(* host as written and a path; every session.get is one step, and its      *)
(* outcome (a response of some status, with or without Location, or a      *)
(* requests.RequestException) is chosen by the server.                     *)
(***************************************************************************)
HTTP_RETRY_ATTEMPTS == 5

HTTP_REDIRECT_LIMIT == 5

\* response.status_code in {301, 302, 303, 307, 308}
IsRedirect(status) == status \in {301, 302, 303, 307, 308}

\* only 5xx: 500 <= response.status_code < 600
IsRetryable_server_errors_only(status) == 500 <= status /\ status < 600

\* response.status_code in {429} or 500 <= response.status_code < 600
IsRetryable(status) == status \in {429} \/ (500 <= status /\ status < 600)

\* (urlparse(url).hostname or "").lower()
hostname(url) == StrLower(url.host)

\* a check that the url names a host at all
host_allowed_any_host(url, allow_hosts) == hostname(url) # <<>>

\* _ensure_allowed_host returns (does not raise IngestError)
host_allowed(url, allow_hosts) == hostname(url) \in allow_hosts

\* the Location header of a response: absent, a path on the same server, or
\* an absolute url
NoLocation == [host |-> <<>>, path |-> ""]

\* urljoin(current_url, location)
urljoin(current_url, location) ==
    IF location.host = <<>>
    THEN [host |-> current_url.host, path |-> location.path]
    ELSE location

HttpHosts == {<<"a",".","i","o">>, <<"A",".","i","o">>, <<"b",".","i","o">>}

HttpPaths == {"/x", "/y"}

HttpUrls == [host : HttpHosts, path : HttpPaths]

HttpLocations == {NoLocation} \cup [host : {<<>>}, path : HttpPaths] \cup HttpUrls

HttpStatuses == {200, 300, 301, 308, 404, 429, 430, 499, 500, 599, 600}

NoResponse == [kind |-> "none", status |-> 0]

NoRequest == [host |-> <<>>, path |-> ""]

HttpInit ==
    /\ hAllow \in SUBSET {<<"a",".","i","o">>, <<"b",".","i","o">>}
    /\ hUrl \in [host : HttpHosts, path : {"/x"}]
    /\ hAttempt = 0
    /\ hHop = 0
    /\ hCurrent = hUrl
    /\ hTarget = NoRequest
    /\ hRequests = 0
    /\ hLast = NoResponse
    /\ hLastExc = FALSE
    /\ hPc = "retry"
    /\ hResult = [kind |-> "pending", status |-> 0, error |-> "none"]

HttpIdle ==
    /\ hAllow = {}
    /\ hUrl = NoRequest
    /\ hAttempt = 0
    /\ hHop = 0
    /\ hCurrent = NoRequest
    /\ hTarget = NoRequest
    /\ hRequests = 0
    /\ hLast = NoResponse
    /\ hLastExc = FALSE
    /\ hPc = "idle"
    /\ hResult = [kind |-> "pending", status |-> 0, error |-> "none"]

\* raise IngestError(...): it is no requests.RequestException, so it leaves
\* _perform_http_request and _http_get_with_retry
HttpRaise(error) ==
    /\ hPc' = "raised"
    /\ hResult' = [kind |-> "IngestError", status |-> 0, error |-> error]

\* for attempt in range(HTTP_RETRY_ATTEMPTS): the call of
\* _perform_http_request(session, current_url, ...), which starts at url
HttpAttempt ==
    /\ hPc = "retry"
    /\ hAttempt < HTTP_RETRY_ATTEMPTS
    /\ hPc' = "perform"
    /\ hHop' = 0
    /\ hCurrent' = hUrl
    /\ hRequests' = 0
    /\ UNCHANGED <<hAllow, hUrl, hAttempt, hTarget, hLast, hLastExc, hResult>>
    /\ UNCHANGED otherThanHttp

\* the loop over the attempts has ended: raise IngestError
HttpRetriesExhausted ==
    /\ hPc = "retry"
    /\ hAttempt = HTTP_RETRY_ATTEMPTS
    /\ HttpRaise(IF hLastExc THEN "http fetch failed: exception"
                 ELSE "http fetch failed: exceeded retries")
    /\ UNCHANGED <<hAllow, hUrl, hAttempt, hHop, hCurrent, hTarget, hRequests, hLast, hLastExc>>
    /\ UNCHANGED otherThanHttp

\* for _ in range(HTTP_REDIRECT_LIMIT + 1) has ended
HttpTooManyRedirects ==
    /\ hPc = "perform"
    /\ hHop = HTTP_REDIRECT_LIMIT + 1
    /\ HttpRaise("too many redirects")
    /\ UNCHANGED <<hAllow, hUrl, hAttempt, hHop, hCurrent, hTarget, hRequests, hLast, hLastExc>>
    /\ UNCHANGED otherThanHttp

\* _ensure_allowed_host(current_url, allow_hosts) raises
HttpHostRefused ==
    /\ hPc = "perform"
    /\ hHop <= HTTP_REDIRECT_LIMIT
    /\ ~host_allowed(hCurrent, hAllow)
    /\ HttpRaise("host not in allowlist")
    /\ UNCHANGED <<hAllow, hUrl, hAttempt, hHop, hCurrent, hTarget, hRequests, hLast, hLastExc>>
    /\ UNCHANGED otherThanHttp

\* session.get(current_url, ...) raises requests.RequestException: the
\* except branch of _http_get_with_retry (last_exc = exc, sleep, continue)
HttpRequestFails ==
    /\ hPc = "perform"
    /\ hHop <= HTTP_REDIRECT_LIMIT
    /\ host_allowed(hCurrent, hAllow)
    /\ hTarget' = hCurrent
    /\ hRequests' = hRequests + 1
    /\ hLast' = [kind |-> "exception", status |-> 0]
    /\ hLastExc' = TRUE
    /\ hAttempt' = hAttempt + 1
    /\ hPc' = "retry"
    /\ UNCHANGED <<hAllow, hUrl, hHop, hCurrent, hResult>>
    /\ UNCHANGED otherThanHttp

\* session.get(current_url, ...) returns a redirect: without Location raise
\* IngestError, else current_url = urljoin(current_url, location); continue
HttpRedirect ==
    /\ hPc = "perform"
    /\ hHop <= HTTP_REDIRECT_LIMIT
    /\ host_allowed(hCurrent, hAllow)
    /\ \E status \in {s \in HttpStatuses : IsRedirect(s)}, location \in HttpLocations :
          /\ hTarget' = hCurrent
          /\ hRequests' = hRequests + 1
          /\ hLast' = [kind |-> "response", status |-> status]
          /\ IF location = NoLocation
             THEN /\ HttpRaise("redirect without location")
                  /\ UNCHANGED <<hCurrent, hHop>>
             ELSE /\ hCurrent' = urljoin(hCurrent, location)
                  /\ hHop' = hHop + 1
                  /\ UNCHANGED <<hPc, hResult>>
    /\ UNCHANGED <<hAllow, hUrl, hAttempt, hLastExc>>
    /\ UNCHANGED otherThanHttp

\* session.get(current_url, ...) returns another response, which
\* _perform_http_request returns: on 429 and 5xx _http_get_with_retry
\* returns it on the last attempt and otherwise sleeps and continues; any
\* other response is returned
HttpResponse ==
    /\ hPc = "perform"
    /\ hHop <= HTTP_REDIRECT_LIMIT
    /\ host_allowed(hCurrent, hAllow)
    /\ \E status \in {s \in HttpStatuses : ~IsRedirect(s)} :
          /\ hTarget' = hCurrent
          /\ hRequests' = hRequests + 1
          /\ hLast' = [kind |-> "response", status |-> status]
          /\ IF IsRetryable(status) /\ hAttempt # HTTP_RETRY_ATTEMPTS - 1
             THEN /\ hAttempt' = hAttempt + 1
                  /\ hPc' = "retry"
                  /\ UNCHANGED hResult
             ELSE /\ hPc' = "returned"
                  /\ hResult' = [kind |-> "response", status |-> status, error |-> "none"]
                  /\ UNCHANGED hAttempt
    /\ UNCHANGED <<hAllow, hUrl, hHop, hCurrent, hLastExc>>
    /\ UNCHANGED otherThanHttp

HttpNext ==
    \/ HttpAttempt
    \/ HttpRetriesExhausted
    \/ HttpTooManyRedirects
    \/ HttpHostRefused
    \/ HttpRequestFails
    \/ HttpRedirect
    \/ HttpResponse

\* a session.get was made in this step
ClaimRequestSent == hRequests' = hRequests + 1

\* C28: every request of _perform_http_request, also after a redirect,
\* goes to a host of allow_hosts; when the current url has a host outside
\* the list the call raises IngestError without sending a request; a call
\* sends at most HTTP_REDIRECT_LIMIT + 1 requests, and "too many redirects"
\* is raised after exactly that many.
C28_RequestsStayOnAllowedHosts ==
    /\ [](hTarget # NoRequest => StrLower(hTarget.host) \in hAllow)
    /\ [](hRequests <= HTTP_REDIRECT_LIMIT + 1)
    /\ [](hResult.error = "too many redirects" => hRequests = HTTP_REDIRECT_LIMIT + 1)
    /\ [][(hPc = "perform" /\ StrLower(hCurrent.host) \notin hAllow)
            => (hResult'.kind = "IngestError" /\ ~ClaimRequestSent)]_vars
    /\ [][ClaimRequestSent => StrLower(hCurrent.host) \in hAllow /\ hTarget' = hCurrent]_vars

\* a redirect from an allowed host to a host outside the list has been
\* refused
C28_Witness ==
    /\ hResult.error = "host not in allowlist"
    /\ hRequests >= 1
    /\ hLast.kind = "response"
    /\ StrLower(hTarget.host) \in hAllow
    /\ StrLower(hCurrent.host) \notin hAllow

\* the statuses the claim names as retried
ClaimRetried(status) == status = 429 \/ status \in 500..599

\* the statuses that _perform_http_request follows instead of returning
ClaimFollowed(status) == status \in {301, 302, 303, 307, 308}

\* C29: _http_get_with_retry makes at most HTTP_RETRY_ATTEMPTS attempts; a
\* 429 or 5xx response and a request exception are retried, a response of
\* another status is returned at once, a 429 or 5xx response of the last
\* attempt is returned, and after a request exception in the last attempt
\* IngestError is raised.
C29_RetryOutcomes ==
    /\ [](hAttempt <= HTTP_RETRY_ATTEMPTS)
    /\ [](hPc = "perform" => hAttempt < HTTP_RETRY_ATTEMPTS)
    /\ [][(ClaimRequestSent /\ hLast'.kind = "response" /\ ~ClaimFollowed(hLast'.status))
            => IF ClaimRetried(hLast'.status) /\ hAttempt < HTTP_RETRY_ATTEMPTS - 1
               THEN hPc' = "retry" /\ hAttempt' = hAttempt + 1 /\ hResult'.kind = "pending"
               ELSE /\ hPc' = "returned"
                    /\ hResult' = [kind |-> "response", status |-> hLast'.status, error |-> "none"]]_vars
    /\ [][(ClaimRequestSent /\ hLast'.kind = "exception")
            => hPc' = "retry" /\ hAttempt' = hAttempt + 1 /\ hResult'.kind = "pending"]_vars
    /\ [][(hPc = "retry" /\ hAttempt < HTTP_RETRY_ATTEMPTS) => hPc' = "perform"]_vars
    /\ [][(hPc = "retry" /\ hAttempt = HTTP_RETRY_ATTEMPTS)
            => (hLast.kind = "exception" /\ hResult'.kind = "IngestError")]_vars

\* a 5xx response of the fifth attempt has been returned after a request
\* exception in an earlier attempt
C29_Witness ==
    /\ hPc = "returned"
    /\ hAttempt = HTTP_RETRY_ATTEMPTS - 1
    /\ hResult.status = 599
    /\ hLastExc

\* IngestError has been raised after a request exception in the fifth
\* attempt
ClaimLastAttemptFailed ==
    /\ hPc = "raised"
    /\ hAttempt = HTTP_RETRY_ATTEMPTS
    /\ hResult.error = "http fetch failed: exception"

(***************************************************************************)
(* ingest.py: the loop of ingest over the sources of the configuration and *)
(* the status field of every source.lock.  The fetch, the adapter, each    *)
(* profile written and the provenance record are steps that return or      *)
(* raise an Exception.                                                     *)
(***************************************************************************)
MaxSources == 2

MaxProfiles == 2

SourceIds == {"a", "b"}

\* a source of the configuration: str(source.get("id")) and whether
\* _ensure_source_allowed raises for it (flagged as mock, or a host outside
\* allow_hosts)
SourceInputs == [id : SourceIds \cup {"None"}, refused : BOOLEAN]

\* _prepare_workspace: the lock is written with status "processing"
prepare_workspace(locks, source_id) == [locks EXCEPT ![source_id] = "processing"]

\* a handler that rewrites the lock only on success
finalise_workspace_completed_only(locks, source_id, status) ==
    IF status = "completed" THEN [locks EXCEPT ![source_id] = status] ELSE locks

\* _finalise_workspace: the lock is rewritten with the given status
finalise_workspace(locks, source_id, status) == [locks EXCEPT ![source_id] = status]

IngestInit ==
    /\ iSources \in SeqsUpTo(SourceInputs, MaxSources)
    /\ iOnly \in {{}, {"a"}}
    /\ iIndex = 1
    /\ iPc = "loop"
    /\ iLocks = [id \in SourceIds |-> "absent"]
    /\ iProfiles = 0
    /\ iWritten = 0
    /\ iResults = <<>>
    /\ iProcessed = {}
    /\ iError = "none"

IngestIdle ==
    /\ iSources = <<>>
    /\ iOnly = {}
    /\ iIndex = 1
    /\ iPc = "idle"
    /\ iLocks = [id \in SourceIds |-> "absent"]
    /\ iProfiles = 0
    /\ iWritten = 0
    /\ iResults = <<>>
    /\ iProcessed = {}
    /\ iError = "none"

\* the source the loop is at
CurrentSource == iSources[iIndex]

\* except Exception as exc: _finalise_workspace(workspace, "failed", ...); raise
IngestFailed(error) ==
    /\ iLocks' = finalise_workspace(iLocks, CurrentSource.id, "failed")
    /\ iPc' = "raised"
    /\ iError' = error

\* for source in bundle.sources: the checks of the id, of the filter and of
\* _ensure_source_allowed, then _prepare_workspace
IngestSource ==
    /\ iPc = "loop"
    /\ iIndex <= Len(iSources)
    /\ IF CurrentSource.id = "None"
       THEN /\ iPc' = "raised"
            /\ iError' = "IngestError: missing id"
            /\ UNCHANGED <<iIndex, iLocks, iProcessed>>
       ELSE IF iOnly # {} /\ CurrentSource.id \notin iOnly
       THEN /\ iIndex' = iIndex + 1
            /\ UNCHANGED <<iPc, iError, iLocks, iProcessed>>
       ELSE IF CurrentSource.refused
       THEN /\ iPc' = "raised"
            /\ iError' = "IngestError: source refused"
            /\ UNCHANGED <<iIndex, iLocks, iProcessed>>
       ELSE /\ iLocks' = prepare_workspace(iLocks, CurrentSource.id)
            /\ iProcessed' = iProcessed \cup {CurrentSource.id}
            /\ iPc' = "fetch"
            /\ UNCHANGED <<iIndex, iError>>
    /\ UNCHANGED <<iSources, iOnly, iProfiles, iWritten, iResults>>
    /\ UNCHANGED otherThanIngest

\* outcome = _fetch_source(source, workspace, bundle.allow_hosts)
IngestFetch ==
    /\ iPc = "fetch"
    /\ \/ /\ iPc' = "adapt"
          /\ UNCHANGED <<iLocks, iError>>
       \/ IngestFailed("fetch")
    /\ UNCHANGED <<iSources, iOnly, iIndex, iProfiles, iWritten, iResults, iProcessed>>
    /\ UNCHANGED otherThanIngest

\* adapter = get_adapter(adapter_name); profiles = adapter.ingest(...)
IngestAdapter ==
    /\ iPc = "adapt"
    /\ \/ /\ iProfiles' \in 0..MaxProfiles
          /\ iWritten' = 0
          /\ iPc' = "write"
          /\ UNCHANGED <<iLocks, iError>>
       \/ /\ IngestFailed("adapter")
          /\ UNCHANGED <<iProfiles, iWritten>>
    /\ UNCHANGED <<iSources, iOnly, iIndex, iResults, iProcessed>>
    /\ UNCHANGED otherThanIngest

\* for profile in profiles: write_profile, BUILDINFO.json,
\* SOURCE_PROVENANCE.json, results.append(...)
IngestWriteProfile ==
    /\ iPc = "write"
    /\ iWritten < iProfiles
    /\ \/ /\ iWritten' = iWritten + 1
          /\ iResults' = Append(iResults, CurrentSource.id)
          /\ UNCHANGED <<iPc, iLocks, iError>>
       \/ /\ IngestFailed("write_profile")
          /\ UNCHANGED <<iWritten, iResults>>
    /\ UNCHANGED <<iSources, iOnly, iIndex, iProfiles, iProcessed>>
    /\ UNCHANGED otherThanIngest

\* _write_json_atomic(workspace.provenance_path, ...);
\* _finalise_workspace(workspace, "completed", ...)
IngestFinish ==
    /\ iPc = "write"
    /\ iWritten = iProfiles
    /\ \/ /\ iLocks' = finalise_workspace(iLocks, CurrentSource.id, "completed")
          /\ iIndex' = iIndex + 1
          /\ iPc' = "loop"
          /\ UNCHANGED iError
       \/ /\ IngestFailed("provenance")
          /\ UNCHANGED iIndex
    /\ UNCHANGED <<iSources, iOnly, iProfiles, iWritten, iResults, iProcessed>>
    /\ UNCHANGED otherThanIngest

\* return results
IngestReturn ==
    /\ iPc = "loop"
    /\ iIndex > Len(iSources)
    /\ iPc' = "returned"
    /\ UNCHANGED <<iSources, iOnly, iIndex, iLocks, iProfiles, iWritten, iResults, iProcessed, iError>>
    /\ UNCHANGED otherThanIngest

IngestNext ==
    \/ IngestSource
    \/ IngestFetch
    \/ IngestAdapter
    \/ IngestWriteProfile
    \/ IngestFinish
    \/ IngestReturn

\* the source is between workspace preparation and its end
ClaimInProgress == iPc \in {"fetch", "adapt", "write"}

\* C30: the lock of a source that reached workspace preparation is
\* "processing" until the source finishes, then "completed" when all its
\* profiles were written or "failed" when a step raised; on failure the
\* exception leaves ingest and no later source is processed; once ingest has
\* returned or raised no lock of a processed source is "processing".
C30_LockLifecycle ==
    /\ [](ClaimInProgress => iLocks[CurrentSource.id] = "processing")
    /\ [][(ClaimInProgress /\ ~ClaimInProgress')
            => \/ /\ iPc' = "loop"
                  /\ iWritten = iProfiles
                  /\ iLocks'[CurrentSource.id] = "completed"
               \/ /\ iPc' = "raised"
                  /\ iError' # "none"
                  /\ iLocks'[CurrentSource.id] = "failed"]_vars
    /\ [][iPc \notin {"raised", "returned"}]_vars
    /\ [](iPc \in {"raised", "returned"} =>
             \A id \in iProcessed : iLocks[id] \in {"completed", "failed"})
    /\ [](\A id \in SourceIds : iLocks[id] # "absent" <=> id \in iProcessed)

\* the first source was completed and the second one failed while its
\* second profile was written
C30_Witness ==
    /\ iPc = "raised"
    /\ iError = "write_profile"
    /\ iIndex = 2
    /\ iWritten = 1
    /\ iLocks[iSources[1].id] = "completed"
    /\ iLocks[iSources[2].id] = "failed"

(***************************************************************************)
(* Specifications, one per subsystem.                                      *)
(***************************************************************************)
InitCodes == CodesInit /\ ScanIdle /\ DedupIdle /\ M3UIdle /\ FreshIdle /\ ConvertIdle /\ ClassifyIdle /\ LamedbIdle /\ ScanfilesIdle /\ OutputsIdle /\ DvbsiIdle /\ CatalogIdle /\ HttpIdle /\ IngestIdle
SpecCodes == InitCodes /\ [][CodesNext]_vars

InitScan == ScanInit /\ CodesIdle /\ DedupIdle /\ M3UIdle /\ FreshIdle /\ ConvertIdle /\ ClassifyIdle /\ LamedbIdle /\ ScanfilesIdle /\ OutputsIdle /\ DvbsiIdle /\ CatalogIdle /\ HttpIdle /\ IngestIdle
SpecScan == InitScan /\ [][ScanNext]_vars

InitDedup == DedupInit /\ CodesIdle /\ ScanIdle /\ M3UIdle /\ FreshIdle /\ ConvertIdle /\ ClassifyIdle /\ LamedbIdle /\ ScanfilesIdle /\ OutputsIdle /\ DvbsiIdle /\ CatalogIdle /\ HttpIdle /\ IngestIdle
SpecDedup == InitDedup /\ [][DedupNext]_vars

InitM3U == M3UInit /\ CodesIdle /\ ScanIdle /\ DedupIdle /\ FreshIdle /\ ConvertIdle /\ ClassifyIdle /\ LamedbIdle /\ ScanfilesIdle /\ OutputsIdle /\ DvbsiIdle /\ CatalogIdle /\ HttpIdle /\ IngestIdle
SpecM3U == InitM3U /\ [][M3UNext]_vars

InitFresh == FreshInit /\ CodesIdle /\ ScanIdle /\ DedupIdle /\ M3UIdle /\ ConvertIdle /\ ClassifyIdle /\ LamedbIdle /\ ScanfilesIdle /\ OutputsIdle /\ DvbsiIdle /\ CatalogIdle /\ HttpIdle /\ IngestIdle
SpecFresh == InitFresh /\ [][FreshNext]_vars

InitConvert == ConvertInit /\ CodesIdle /\ ScanIdle /\ DedupIdle /\ M3UIdle /\ FreshIdle /\ ClassifyIdle /\ LamedbIdle /\ ScanfilesIdle /\ OutputsIdle /\ DvbsiIdle /\ CatalogIdle /\ HttpIdle /\ IngestIdle
SpecConvert == InitConvert /\ [][ConvertNext]_vars

InitClassify == ClassifyInit /\ CodesIdle /\ ScanIdle /\ DedupIdle /\ M3UIdle /\ FreshIdle /\ ConvertIdle /\ LamedbIdle /\ ScanfilesIdle /\ OutputsIdle /\ DvbsiIdle /\ CatalogIdle /\ HttpIdle /\ IngestIdle
SpecClassify == InitClassify /\ [][ClassifyNext]_vars

InitLamedb == LamedbInit /\ CodesIdle /\ ScanIdle /\ DedupIdle /\ M3UIdle /\ FreshIdle /\ ConvertIdle /\ ClassifyIdle /\ ScanfilesIdle /\ OutputsIdle /\ DvbsiIdle /\ CatalogIdle /\ HttpIdle /\ IngestIdle
SpecLamedb == InitLamedb /\ [][LamedbNext]_vars

InitScanfiles == ScanfilesInit /\ CodesIdle /\ ScanIdle /\ DedupIdle /\ M3UIdle /\ FreshIdle /\ ConvertIdle /\ ClassifyIdle /\ LamedbIdle /\ OutputsIdle /\ DvbsiIdle /\ CatalogIdle /\ HttpIdle /\ IngestIdle
SpecScanfiles == InitScanfiles /\ [][ScanfilesNext]_vars

InitOutputs == OutputsInit /\ CodesIdle /\ ScanIdle /\ DedupIdle /\ M3UIdle /\ FreshIdle /\ ConvertIdle /\ ClassifyIdle /\ LamedbIdle /\ ScanfilesIdle /\ DvbsiIdle /\ CatalogIdle /\ HttpIdle /\ IngestIdle
SpecOutputs == InitOutputs /\ [][OutputsNext]_vars

InitDvbsi == DvbsiInit /\ CodesIdle /\ ScanIdle /\ DedupIdle /\ M3UIdle /\ FreshIdle /\ ConvertIdle /\ ClassifyIdle /\ LamedbIdle /\ ScanfilesIdle /\ OutputsIdle /\ CatalogIdle /\ HttpIdle /\ IngestIdle
SpecDvbsi == InitDvbsi /\ [][DvbsiNext]_vars

InitCatalog == CatalogInit /\ CodesIdle /\ ScanIdle /\ DedupIdle /\ M3UIdle /\ FreshIdle /\ ConvertIdle /\ ClassifyIdle /\ LamedbIdle /\ ScanfilesIdle /\ OutputsIdle /\ DvbsiIdle /\ HttpIdle /\ IngestIdle
SpecCatalog == InitCatalog /\ [][CatalogNext]_vars

InitHttp == HttpInit /\ CodesIdle /\ ScanIdle /\ DedupIdle /\ M3UIdle /\ FreshIdle /\ ConvertIdle /\ ClassifyIdle /\ LamedbIdle /\ ScanfilesIdle /\ OutputsIdle /\ DvbsiIdle /\ CatalogIdle /\ IngestIdle
SpecHttp == InitHttp /\ [][HttpNext]_vars

InitIngest == IngestInit /\ CodesIdle /\ ScanIdle /\ DedupIdle /\ M3UIdle /\ FreshIdle /\ ConvertIdle /\ ClassifyIdle /\ LamedbIdle /\ ScanfilesIdle /\ OutputsIdle /\ DvbsiIdle /\ CatalogIdle /\ HttpIdle
SpecIngest == InitIngest /\ [][IngestNext]_vars

====
